---- MODULE Spec2Model ----
(***************************************************************************)
(* A model of the VTX transport (ArdKit-VTX): the TX endpoint (vtx_tx.c),  *)
(* the RX endpoint (vtx_rx.c), the frame pools, fragment trackers and      *)
(* frame queues (vtx_frame.c) and the packet helpers (vtx_packet.[ch]).    *)
(*                                                                         *)
(* Conventions                                                             *)
(*  - A frame is a slot of its pool: pool.frames[i]; 0 is the NULL frame.  *)
(*  - list.h is not part of the sources: the free list and the queues are  *)
(*    sequences of slots, and frame.linked stands for                      *)
(*    !list_empty(&frame->list).                                           *)
(*  - Buffers are sequences of bytes of the pool's capacity; reset keeps   *)
(*    the bytes, as the code does.                                         *)
(*  - Statistics counters that no handler reads are left out, except the   *)
(*    ones shown in the stats record.                                      *)
(***************************************************************************)
EXTENDS Integers, Sequences, FiniteSets, TLC

(* ---------------- program constants ---------------- *)

VTX_FRAME_I == 1
VTX_FRAME_P == 2
VTX_FRAME_SPS == 3
VTX_FRAME_PPS == 4
VTX_FRAME_A == 5
VTX_DATA_CONNECT == 16
VTX_DATA_CONNECTED == 17
VTX_DATA_DISCONNECT == 18
VTX_DATA_ACK == 19
VTX_DATA_HEARTBEAT == 20
VTX_DATA_USER == 21
VTX_DATA_START == 22
VTX_DATA_STOP == 23
VTX_FLAG_LAST_FRAG == 1
VTX_FLAG_RETRANS == 2
\* sizeof(vtx_packet_header_t): 4+2+1+1+2+2+2+2, packed
VTX_PACKET_HEADER_SIZE == 16
VTX_DEFAULT_MTU == 1400
VTX_MAX_URL_SIZE == 100
VTX_MAX_PAYLOAD_SIZE == VTX_DEFAULT_MTU - VTX_PACKET_HEADER_SIZE
VTX_FRAME_POOL_INIT_SIZE == 2
\* vtx_mem.h: the result codes; every error code is a positive int
VTX_OK == 0
VTX_ERR_NO_MEMORY == 32770
VTX_ERR_OVERFLOW == 32777
VTX_ERR_ALREADY_INIT == 32780
VTX_ERR_CHECKSUM == 32782
VTX_ERR_PACKET_INVALID == 33280
VTX_FRAG_SLAB_COUNT == 5
\* the literals of vtx_rx.c's vtx_process_retrans_queue
RX_DATA_MAX_RETRANS == 3
RX_DATA_RETRANS_TIMEOUT_MS == 100
VTX_DEFAULT_RETRANS_TIMEOUT_MS == 5
VTX_DEFAULT_MAX_RETRANS == 3
VTX_DEFAULT_DATA_RETRANS_TIMEOUT_MS == 30
VTX_DEFAULT_HEARTBEAT_INTERVAL_MS == 60000
VTX_DEFAULT_HEARTBEAT_MAX_MISS == 3
VTX_DEFAULT_CONNECT_TIMEOUT_MS == 100
VTX_DEFAULT_CONNECT_MAX_RETRANS == 3
VTX_DEFAULT_FRAME_TIMEOUT_MS == 100

(* ---------------- bounds of the model ---------------- *)

\* config.mtu of both endpoints: payload capacity Mtu - 16 bytes a fragment
Mtu == 18
\* VTX_MEDIA_FRAME_DATA_SIZE and VTX_CTRL_FRAME_DATA_SIZE, scaled down
MediaCap == 4
CtrlCap == 1
\* frames a pool may grow to (vtx_frame_alloc fails beyond)
MaxPoolFrames == 3
\* media frames submitted, reliable datagrams sent by one endpoint
MaxSubmit == 2
MaxSend == 1
\* duplications and losses by the network
MaxDup == 1
MaxDrop == 1
MaxDropRetrans == 2
MaxDropData == 2
\* the clock of the media specification and its configuration
MaxTimeMedia == 2
MaxTimeRetrans == 3
MediaRetransTimeoutMs == 1
MediaMaxRetrans == 1
\* the clock of the datagram specification: two ticks make 100 ms
DataTickMs == 50
MaxDataTicks == 6
TxDataRetransTimeoutMs == 100
TxDataMaxRetrans == 2
RxCfgDataMaxRetrans == 1
\* the receive timeout of a partial frame, the time and the losses of SpecExpire
FrameTimeoutMs == 2
MaxTimeExpire == 3
MaxDropExpire == 2
MaxSubmitExpire == 3
\* the handshake and the heartbeat of the connection specifications: the
\* configuration of TX, the calls of vtx_rx_connect and vtx_tx_close that send
\* a packet, the losses, the clocks
ConnectTimeoutMs == 2
ConnectMaxRetrans == 2
HeartbeatIntervalMs == 1
HeartbeatMaxMiss == 2
MaxConnect == 1
MaxDropConn == 3
MaxTimeConn == 7
MaxClose == 1
MaxTimeSend == 3
\* datagrams altered on the way, and the clock of that specification
MaxDamage == 1
MaxTimeWire == 2
PoolInitialSize == 1
MaxPoolCalls == 4
CopyCap == 3
\* sequence numbers the threads of TX take in the specification of threads
MaxEmit == 4
\* a datagram is delivered or lost within the poll cycle it was sent in: the
\* round trip of the connection specification, in ms
RoundTripMs == 1
\* the 5000 ms of the wait loop of vtx_rx_connect, scaled down: as with the
\* defaults, the wait is longer than the CONNECTED retransmissions of TX last
ConnectWaitMs == ConnectMaxRetrans * ConnectTimeoutMs + 1

Min(a, b) == IF a < b THEN a ELSE b

(* ---------------- vtx_packet.h helpers ---------------- *)

vtx_packet_calc_frags(frame_size, mtu) ==
    (frame_size + (mtu - VTX_PACKET_HEADER_SIZE) - 1) \div (mtu - VTX_PACKET_HEADER_SIZE)

vtx_packet_calc_frag_offset(frag_index, mtu) ==
    frag_index * (mtu - VTX_PACKET_HEADER_SIZE)

\* a fragment size that ignores what is left of the frame
vtx_packet_calc_frag_size_Full(frame_size, frag_index, mtu) ==
    mtu - VTX_PACKET_HEADER_SIZE

vtx_packet_calc_frag_size(frame_size, frag_index, mtu) ==
    Min(frame_size - frag_index * (mtu - VTX_PACKET_HEADER_SIZE),
        mtu - VTX_PACKET_HEADER_SIZE)

vtx_packet_validate_header(h) ==
    /\ ~(h.frag_index >= h.total_frags)
    /\ ~(h.total_frags = 0)
    /\ ~(h.payload_size > VTX_MAX_PAYLOAD_SIZE)
    /\ ~(h.frame_type < VTX_FRAME_I
         \/ (h.frame_type > VTX_FRAME_A /\ h.frame_type < VTX_DATA_CONNECT))

\* header = {0}
ZeroHeader ==
    [seq_num |-> 0, frame_id |-> 0, frame_type |-> 0, flags |-> 0,
     frag_index |-> 0, total_frags |-> 0, payload_size |-> 0]

\* vtx_crc16 is a table-driven CRC-16 over the bytes; the model keeps what the
\* receive paths rely on, a 16-bit value folded from the bytes in their order
\* that changes whenever one of them changes
\* a * b modulo 2^16 within the 32-bit integers of the checker
MulMod16(a, b) == (((a \div 256) * b % 65536) * 256 + (a % 256) * b) % 65536

\* the fold of vtx_crc16 over bytes[lo..hi] as the map crc -> mul * crc + add
\* modulo 2^16, put together from the maps of the two halves of the range
RECURSIVE Crc16Range(_, _, _)
Crc16Range(bytes, lo, hi) ==
    IF lo = hi THEN [mul |-> 31, add |-> bytes[lo] % 65536]
    ELSE LET mid == (lo + hi) \div 2
             l == Crc16Range(bytes, lo, mid)
             r == Crc16Range(bytes, mid + 1, hi)
         IN [mul |-> MulMod16(r.mul, l.mul),
             add |-> (MulMod16(r.mul, l.add) + r.add) % 65536]

\* crc = (crc * 31 + byte) % 2^16 for each byte in its order
vtx_crc16(crc, bytes) ==
    IF bytes = <<>> THEN crc
    ELSE LET m == Crc16Range(bytes, 1, Len(bytes))
         IN (MulMod16(m.mul, crc % 65536) + m.add) % 65536

\* the CRC of the header fields before the checksum, continued over the payload
vtx_packet_calc_crc(h, payload) ==
    vtx_crc16(65535, <<h.seq_num, h.frame_id, h.frame_type, h.flags, h.frag_index,
                       h.total_frags, h.payload_size>> \o payload)

\* a datagram on the wire: the header fields, the checksum and the payload bytes
Packet(h, payload) ==
    [seq_num |-> h.seq_num, frame_id |-> h.frame_id, frame_type |-> h.frame_type,
     flags |-> h.flags, frag_index |-> h.frag_index, total_frags |-> h.total_frags,
     payload_size |-> h.payload_size, checksum |-> vtx_packet_calc_crc(h, payload),
     payload |-> payload, from |-> "none", to |-> "none"]

\* vtx_packet_verify on the n bytes of a received datagram
vtx_packet_verify(p) == vtx_packet_calc_crc(p, p.payload) = p.checksum

(* ---------------- frames and frame pools (vtx_frame.c) ---------------- *)

ZeroBuf(cap) == [k \in 1..cap |-> 0]

vtx_frame_alloc(cap) ==
    [refcount |-> 0, state |-> "FREE", frame_id |-> 0, frame_type |-> 0,
     total_frags |-> 0, recv_frags |-> 0, data_size |-> 0, data |-> ZeroBuf(cap),
     retran |-> [capacity |-> 0, num |-> 0, frag |-> <<>>], first_recv_ms |-> 0, last_recv_ms |-> 0,
     send_time_ms |-> 0, retrans_count |-> 0, linked |-> FALSE]

vtx_frame_pool_create(initial_size, cap) ==
    [frames |-> [i \in 1..initial_size |-> [vtx_frame_alloc(cap) EXCEPT !.linked = TRUE]],
     free |-> [i \in 1..initial_size |-> i],
     free_count |-> initial_size, total_count |-> initial_size, cap |-> cap]

\* vtx_frame_reset: the tracker pointer is dropped, not returned to its pool
vtx_frame_reset(f) ==
    [f EXCEPT !.retran = [capacity |-> 0, num |-> 0, frag |-> <<>>], !.refcount = 0, !.state = "FREE",
              !.frame_id = 0, !.frame_type = 0, !.total_frags = 0,
              !.recv_frags = 0, !.data_size = 0, !.first_recv_ms = 0,
              !.last_recv_ms = 0, !.send_time_ms = 0, !.retrans_count = 0]

\* the result of vtx_frame_pool_acquire: the pool and the slot (0: NULL)
vtx_frame_pool_acquire(pool) ==
    IF pool.free /= <<>>
    THEN LET i == Head(pool.free) IN
         [pool |-> [pool EXCEPT !.free = Tail(@), !.free_count = @ - 1,
                                !.frames[i].linked = FALSE,
                                !.frames[i].refcount = 1,
                                !.frames[i].state = "FREE"],
          f |-> i]
    ELSE IF Len(pool.frames) < MaxPoolFrames
    THEN LET i == Len(pool.frames) + 1 IN
         [pool |-> [pool EXCEPT
                      !.frames = Append(@, [vtx_frame_alloc(pool.cap) EXCEPT !.refcount = 1]),
                      !.total_count = @ + 1],
          f |-> i]
    ELSE [pool |-> pool, f |-> 0]

vtx_frame_pool_release(pool, i) ==
    [pool EXCEPT !.frames[i] = [vtx_frame_reset(@) EXCEPT !.linked = TRUE],
                 !.free = Append(@, i), !.free_count = @ + 1]

vtx_frame_retain(pool, i) ==
    IF i = 0 THEN pool ELSE [pool EXCEPT !.frames[i].refcount = @ + 1]

\* atomic_fetch_sub, then: underflow returns, 1 -> 0 returns the frame to the pool
vtx_frame_release(pool, i) ==
    IF i = 0 THEN pool
    ELSE LET old == pool.frames[i].refcount
             dec == [pool EXCEPT !.frames[i].refcount = @ - 1]
         IN IF old <= 0 THEN dec
            ELSE IF old = 1 THEN vtx_frame_pool_release(dec, i)
            ELSE dec

(* ---------------- fragment trackers (vtx_frame.c) ---------------- *)

\* frame->retran == NULL
NoTrackerRec == [capacity |-> 0, num |-> 0, frag |-> <<>>]

HasTracker(f) == f.retran.capacity /= 0

vtx_frag_get_slab_index(num_frags) ==
    IF num_frags <= 1 THEN 0
    ELSE IF num_frags <= 32 THEN 1
    ELSE IF num_frags <= 128 THEN 2
    ELSE IF num_frags <= 256 THEN 3
    ELSE IF num_frags <= 512 THEN 4
    ELSE -1

SlabSize(idx) == CASE idx = 0 -> 1 [] idx = 1 -> 32 [] idx = 2 -> 128
                   [] idx = 3 -> 256 [] OTHER -> 512

vtx_frag_pool_create ==
    [slab_free_count |-> [c \in 0..(VTX_FRAG_SLAB_COUNT - 1) |-> 0],
     slab_total_count |-> [c \in 0..(VTX_FRAG_SLAB_COUNT - 1) |-> 0]]

ZeroFrag == [frag_index |-> 0, received |-> FALSE, retrans_count |-> 0,
             send_time_ms |-> 0, seq_num |-> 0]

\* the result of vtx_frag_pool_acquire: the pool and the tracker (NULL: NoTrackerRec);
\* slot k of the code is frag[k + 1]
vtx_frag_pool_acquire(fp, num_frags) ==
    LET idx == vtx_frag_get_slab_index(num_frags) IN
    IF num_frags = 0 \/ idx < 0 THEN [fp |-> fp, t |-> NoTrackerRec]
    ELSE [fp |-> IF fp.slab_free_count[idx] > 0
                 THEN [fp EXCEPT !.slab_free_count[idx] = @ - 1]
                 ELSE [fp EXCEPT !.slab_total_count[idx] = @ + 1],
          t |-> [capacity |-> SlabSize(idx), num |-> num_frags,
                 frag |-> [k \in 1..num_frags |-> ZeroFrag]]]

vtx_frag_pool_release(fp, t) ==
    IF t.capacity = 0 THEN fp
    ELSE [fp EXCEPT !.slab_free_count[vtx_frag_get_slab_index(t.capacity)] = @ + 1]

vtx_frame_init_recv(f, t, frame_id, frame_type, total_frags, now_ms) ==
    [f EXCEPT !.frame_id = frame_id, !.frame_type = frame_type,
              !.total_frags = total_frags, !.recv_frags = 0, !.data_size = 0,
              !.state = "RECEIVING", !.retrans_count = 0,
              !.retran = [t EXCEPT !.frag = [k \in 1..total_frags |->
                                               [ZeroFrag EXCEPT !.frag_index = k - 1]]],
              !.first_recv_ms = now_ms, !.last_recv_ms = now_ms]

vtx_frame_is_complete(f) == f.recv_frags = f.total_frags

vtx_frame_has_frag(f, frag_index) ==
    IF ~HasTracker(f) \/ frag_index >= f.total_frags THEN FALSE
    ELSE f.retran.frag[frag_index + 1].received

vtx_frame_mark_frag_received(f, frag_index, now_ms) ==
    IF ~HasTracker(f) THEN f
    ELSE IF frag_index >= f.total_frags THEN f
    ELSE IF f.retran.frag[frag_index + 1].received THEN f
    ELSE [f EXCEPT !.retran.frag[frag_index + 1].received = TRUE,
                   !.recv_frags = @ + 1,
                   !.last_recv_ms = now_ms,
                   !.state = IF f.recv_frags + 1 = f.total_frags THEN "COMPLETE" ELSE @]

(* ---------------- frame queues (vtx_frame.c) ---------------- *)

RemoveFirst(q, i) ==
    IF \E k \in 1..Len(q) : q[k] = i
    THEN LET k == CHOOSE k \in 1..Len(q) : q[k] = i /\ \A j \in 1..(k - 1) : q[j] /= i
         IN SubSeq(q, 1, k - 1) \o SubSeq(q, k + 1, Len(q))
    ELSE q

\* a push that appends without vtx_frame_retain
vtx_frame_queue_push_NoRetain(pq, i) ==
    IF i = 0 THEN pq
    ELSE [pool |-> [pq.pool EXCEPT !.frames[i].linked = TRUE], q |-> Append(pq.q, i)]

\* queue operations work on a pair [pool, q]: the queue and the pool of its frames
vtx_frame_queue_push(pq, i) ==
    IF i = 0 THEN pq
    ELSE [pool |-> [vtx_frame_retain(pq.pool, i) EXCEPT !.frames[i].linked = TRUE],
          q |-> Append(pq.q, i)]

vtx_frame_queue_find(pq, frame_id) ==
    IF \E k \in 1..Len(pq.q) : pq.pool.frames[pq.q[k]].frame_id = frame_id
    THEN pq.q[CHOOSE k \in 1..Len(pq.q) :
                 /\ pq.pool.frames[pq.q[k]].frame_id = frame_id
                 /\ \A j \in 1..(k - 1) : pq.pool.frames[pq.q[j]].frame_id /= frame_id]
    ELSE 0

vtx_frame_queue_remove(pq, i) ==
    IF i = 0 THEN pq
    ELSE IF pq.pool.frames[i].linked
    THEN [pool |-> vtx_frame_release([pq.pool EXCEPT !.frames[i].linked = FALSE], i),
          q |-> RemoveFirst(pq.q, i)]
    ELSE pq

\* one pass of list_for_each_entry_safe over the frames that were queued at entry
RECURSIVE CleanupFrom(_, _, _, _)
CleanupFrom(pq, todo, now_ms, timeout_ms) ==
    IF todo = <<>> THEN [pq |-> pq, cleaned |-> 0]
    ELSE LET i == Head(todo) IN
         IF now_ms - pq.pool.frames[i].first_recv_ms >= timeout_ms
         THEN LET r == CleanupFrom([pool |-> vtx_frame_release(pq.pool, i),
                                    q |-> RemoveFirst(pq.q, i)],
                                   Tail(todo), now_ms, timeout_ms)
              IN [pq |-> r.pq, cleaned |-> r.cleaned + 1]
         ELSE CleanupFrom(pq, Tail(todo), now_ms, timeout_ms)

\* vtx_frame_queue_cleanup_timeout: nothing is swept when the timeout is 0
vtx_frame_queue_cleanup_timeout(pq, now_ms, timeout_ms) ==
    IF timeout_ms = 0 THEN [pq |-> pq, cleaned |-> 0]
    ELSE CleanupFrom(pq, pq.q, now_ms, timeout_ms)

(* ---------------- shared helpers of the endpoints ---------------- *)

\* the n bytes of a buffer after offset off (bytes beyond the buffer read as 0)
BufSlice(data, off, n) == [k \in 1..n |-> IF off + k <= Len(data) THEN data[off + k] ELSE 0]

\* memcpy(frame->data + off, src, n), n <= Len(src)
BufWrite(data, off, src, n) ==
    [k \in 1..Len(data) |-> IF k > off /\ k <= off + n THEN src[k - off] ELSE data[k]]

\* flags & bit, for the two one-bit flags
HasFlag(flags, bit) == (flags \div bit) % 2 = 1

(* ---------------- the TX endpoint (vtx_tx.c) ---------------- *)

\* vtx_tx_create: a field of the configuration that is 0 gets its default
TxConfigDefaults(config) ==
    LET d(v, def) == IF v = 0 THEN def ELSE v IN
    [mtu |-> d(config.mtu, VTX_DEFAULT_MTU),
     retrans_timeout_ms |-> d(config.retrans_timeout_ms, VTX_DEFAULT_RETRANS_TIMEOUT_MS),
     max_retrans |-> d(config.max_retrans, VTX_DEFAULT_MAX_RETRANS),
     data_retrans_timeout_ms |-> d(config.data_retrans_timeout_ms,
                                   VTX_DEFAULT_DATA_RETRANS_TIMEOUT_MS),
     data_max_retrans |-> d(config.data_max_retrans, VTX_DEFAULT_MAX_RETRANS),
     connect_timeout_ms |-> d(config.connect_timeout_ms, VTX_DEFAULT_CONNECT_TIMEOUT_MS),
     connect_max_retrans |-> d(config.connect_max_retrans, VTX_DEFAULT_CONNECT_MAX_RETRANS),
     heartbeat_interval_ms |-> d(config.heartbeat_interval_ms,
                                 VTX_DEFAULT_HEARTBEAT_INTERVAL_MS),
     heartbeat_max_miss |-> d(config.heartbeat_max_miss, VTX_DEFAULT_HEARTBEAT_MAX_MISS)]

vtx_tx_create(config) ==
    [connected |-> FALSE, client_addr |-> "none",
     connect_retrans_count |-> 0, connect_send_time_ms |-> 0,
     last_heartbeat_ms |-> 0, heartbeat_miss_count |-> 0,
     config |-> TxConfigDefaults(config),
     media_pool |-> vtx_frame_pool_create(VTX_FRAME_POOL_INIT_SIZE, MediaCap),
     data_pool |-> vtx_frame_pool_create(VTX_FRAME_POOL_INIT_SIZE * 4, CtrlCap),
     frag_pool |-> vtx_frag_pool_create,
     data_queue |-> <<>>, last_iframe |-> 0,
     seq_num |-> 0, frame_id |-> 0,
     stats |-> [retrans_packets |-> 0],
     running |-> TRUE]

\* TX's vtx_send_packet: a header with total_frags 0 goes out with total_frags 1;
\* the datagram is addressed to tx->client_addr
TxSendPacket(tx, h, payload) ==
    [Packet([h EXCEPT !.total_frags = IF @ = 0 THEN 1 ELSE @], payload)
       EXCEPT !.from = "tx", !.to = tx.client_addr]

\* a handler's running state: the endpoint, the datagrams sent, the callbacks made
TxRun(tx) == [tx |-> tx, out |-> {}, cb |-> <<>>]

\* header.seq_num = atomic_fetch_add(&tx->seq_num, 1), then vtx_send_packet
TxEmit(s, h, payload) ==
    [s EXCEPT !.out = @ \cup {TxSendPacket(s.tx, [h EXCEPT !.seq_num = s.tx.seq_num], payload)},
              !.tx.seq_num = @ + 1]

DataDue_Always(elapsed, timeout_ms) == TRUE

\* elapsed >= tx->config.data_retrans_timeout_ms
DataDue(elapsed, timeout_ms) == elapsed >= timeout_ms

\* vtx_process_retrans_queue, the reliable-data queue: one frame of the pass
TxSweepDataFrame(s, i, now_ms) ==
    LET f == s.tx.data_pool.frames[i] IN
    IF f.retrans_count >= s.tx.config.data_max_retrans
    THEN [s EXCEPT !.tx.data_queue = RemoveFirst(@, i),
                   !.tx.data_pool = vtx_frame_release(@, i)]
    ELSE IF DataDue(now_ms - f.send_time_ms, s.tx.config.data_retrans_timeout_ms)
    THEN LET s1 == [s EXCEPT !.tx.data_pool.frames[i].retrans_count = @ + 1,
                             !.tx.data_pool.frames[i].send_time_ms = now_ms]
             s2 == TxEmit(s1, [ZeroHeader EXCEPT !.frame_id = f.frame_id,
                                                 !.frame_type = VTX_DATA_USER,
                                                 !.frag_index = 0, !.total_frags = 1,
                                                 !.payload_size = f.data_size,
                                                 !.flags = VTX_FLAG_RETRANS],
                          BufSlice(f.data, 0, f.data_size))
         IN [s2 EXCEPT !.tx.stats.retrans_packets = @ + 1]
    ELSE s

RECURSIVE TxSweepData(_, _, _)
TxSweepData(s, todo, now_ms) ==
    IF todo = <<>> THEN s
    ELSE TxSweepData(TxSweepDataFrame(s, Head(todo), now_ms), Tail(todo), now_ms)

RetransExhausted_Never(frag, config) == FALSE

\* vtx_process_retrans_queue: frag->retrans_count >= tx->config.max_retrans
RetransExhausted(frag, config) == frag.retrans_count >= config.max_retrans

\* vtx_process_retrans_queue: a slot that used up max_retrans is marked
\* received, which ends its retransmission
AbandonSlot(s, i, k) ==
    [s EXCEPT !.tx.media_pool.frames[i].retran.frag[k + 1].received = TRUE]

\* vtx_process_retrans_queue, the retained I-frame: slot k (frag[k + 1]) of the pass
TxSweepIframeSlot(s, k, now_ms) ==
    LET i == s.tx.last_iframe
        iframe == s.tx.media_pool.frames[i]
        frag == iframe.retran.frag[k + 1]
        payload_capacity == s.tx.config.mtu - VTX_PACKET_HEADER_SIZE
        offset == frag.frag_index * payload_capacity
        payload_size == IF iframe.data_size < offset THEN payload_capacity
                        ELSE Min(iframe.data_size - offset, payload_capacity)
    IN
    IF frag.received THEN s
    ELSE IF RetransExhausted(frag, s.tx.config)
    THEN AbandonSlot(s, i, k)
    ELSE IF now_ms - frag.send_time_ms >= s.tx.config.retrans_timeout_ms
    THEN LET s1 == [s EXCEPT
                      !.tx.media_pool.frames[i].retran.frag[k + 1].retrans_count = @ + 1,
                      !.tx.media_pool.frames[i].retran.frag[k + 1].send_time_ms = now_ms]
             s2 == TxEmit(s1, [ZeroHeader EXCEPT
                                 !.frame_id = iframe.frame_id,
                                 !.frame_type = iframe.frame_type,
                                 !.frag_index = frag.frag_index,
                                 !.total_frags = iframe.total_frags,
                                 !.payload_size = payload_size,
                                 !.flags = IF frag.frag_index = iframe.total_frags - 1
                                           THEN VTX_FLAG_RETRANS + VTX_FLAG_LAST_FRAG
                                           ELSE VTX_FLAG_RETRANS],
                          BufSlice(iframe.data, offset, payload_size))
         IN [s2 EXCEPT !.tx.stats.retrans_packets = @ + 1]
    ELSE s

RECURSIVE TxSweepIframeFrom(_, _, _)
TxSweepIframeFrom(s, k, now_ms) ==
    IF k >= s.tx.media_pool.frames[s.tx.last_iframe].retran.num THEN s
    ELSE TxSweepIframeFrom(TxSweepIframeSlot(s, k, now_ms), k + 1, now_ms)

TxSweepIframe(s, now_ms) ==
    IF s.tx.last_iframe /= 0 /\ HasTracker(s.tx.media_pool.frames[s.tx.last_iframe])
    THEN TxSweepIframeFrom(s, 0, now_ms)
    ELSE s

\* vtx_process_retrans_queue: tx->connect_retrans_count >= tx->config.connect_max_retrans
ConnectExhausted(t) == t.connect_retrans_count >= t.config.connect_max_retrans

\* vtx_process_retrans_queue, the CONNECTED reply and the heartbeat check
TxSweepHandshake(s, now_ms) ==
    IF ~s.tx.connected /\ s.tx.connect_send_time_ms > 0
    THEN IF ConnectExhausted(s.tx)
         THEN [s EXCEPT !.tx.connect_send_time_ms = 0, !.tx.connect_retrans_count = 0]
         ELSE IF now_ms - s.tx.connect_send_time_ms >= s.tx.config.connect_timeout_ms
         THEN TxEmit([s EXCEPT !.tx.connect_retrans_count = @ + 1,
                               !.tx.connect_send_time_ms = now_ms],
                     [ZeroHeader EXCEPT !.frame_id = 0,
                                        !.frame_type = VTX_DATA_CONNECTED,
                                        !.flags = VTX_FLAG_RETRANS],
                     <<>>)
         ELSE s
    ELSE s

TxSweepHeartbeat(s, now_ms) ==
    IF s.tx.connected /\ s.tx.last_heartbeat_ms > 0
       /\ now_ms - s.tx.last_heartbeat_ms
            >= s.tx.config.heartbeat_interval_ms * s.tx.config.heartbeat_max_miss
    THEN [s EXCEPT !.tx.connected = FALSE, !.tx.connect_retrans_count = 0,
                   !.tx.heartbeat_miss_count = 0, !.tx.last_heartbeat_ms = 0]
    ELSE s

\* TX's vtx_process_retrans_queue (the early return of an exhausted handshake
\* skips only the heartbeat check, which needs connected)
TxProcessRetransQueue(s, now_ms) ==
    LET s1 == TxSweepData(s, s.tx.data_queue, now_ms)
        s2 == TxSweepIframe(s1, now_ms)
        s3 == TxSweepHandshake(s2, now_ms)
    IN IF ~s2.tx.connected /\ s2.tx.connect_send_time_ms > 0 /\ ConnectExhausted(s2.tx)
       THEN s3
       ELSE TxSweepHeartbeat(s3, now_ms)

\* a callback made by a handler: which one, its type argument, whether its
\* pointer argument is non-NULL, and the bytes it points at
Callback(fn, type, has, data) == [fn |-> fn, type |-> type, has |-> has, data |-> data]

TxCall(s, c) == [s EXCEPT !.cb = Append(@, c)]

\* vtx_recv, case VTX_DATA_ACK
TxRecvAck(s, p, now_ms) ==
    LET tx == s.tx
        data_frame == vtx_frame_queue_find([pool |-> tx.data_pool, q |-> tx.data_queue],
                                           p.frame_id)
    IN
    IF p.frame_id = 0 /\ ~tx.connected
    THEN [s EXCEPT !.tx.connected = TRUE, !.tx.connect_retrans_count = 0,
                   !.tx.last_heartbeat_ms = now_ms, !.tx.heartbeat_miss_count = 0]
    ELSE IF data_frame /= 0
    THEN LET pq == vtx_frame_queue_remove([pool |-> tx.data_pool, q |-> tx.data_queue],
                                          data_frame)
         IN [s EXCEPT !.tx.data_queue = pq.q,
                      !.tx.data_pool = vtx_frame_release(pq.pool, data_frame)]
    ELSE IF /\ tx.last_iframe /= 0
            /\ tx.media_pool.frames[tx.last_iframe].frame_id = p.frame_id
            /\ HasTracker(tx.media_pool.frames[tx.last_iframe])
            /\ p.frag_index < tx.media_pool.frames[tx.last_iframe].retran.num
    THEN [s EXCEPT !.tx.media_pool.frames[tx.last_iframe].retran.frag[p.frag_index + 1].received
                      = TRUE]
    ELSE s

\* the datagram fails the CRC check of vtx_recv: the receive buffer holds the
\* header and VTX_CTRL_FRAME_DATA_SIZE bytes, a longer datagram is cut
TxCrcFails(p) == Len(p.payload) > CtrlCap \/ ~vtx_packet_verify(p)

\* the result code of vtx_recv for the datagram p
TxRecvRet(p) == IF TxCrcFails(p) THEN VTX_ERR_CHECKSUM ELSE 1

\* payload_len > 0 && payload_len < VTX_MAX_URL_SIZE
UrlFits(payload_len) == payload_len > 0 /\ payload_len < VTX_MAX_URL_SIZE

\* case VTX_DATA_START of vtx_recv: the URL is the payload when its length is
\* accepted and its last byte is 0, and NULL otherwise; media_fn is called
\* in both cases
TxRecvStart(s, p) ==
    LET payload_len == Len(p.payload)
        ok == UrlFits(payload_len) /\ p.payload[payload_len] = 0
    IN TxCall(s, Callback("media_fn", VTX_DATA_START, ok,
                          IF ok THEN p.payload ELSE <<>>))

\* vtx_recv after recvfrom returned the datagram p sent by p.from
TxRecv(s, p, now_ms) ==
    LET ack(fid) == [ZeroHeader EXCEPT !.frame_id = fid, !.frame_type = VTX_DATA_ACK] IN
    IF TxCrcFails(p) THEN s
    ELSE CASE p.frame_type = VTX_DATA_ACK -> TxRecvAck(s, p, now_ms)
      [] p.frame_type = VTX_DATA_CONNECT ->
           LET s1 == TxEmit([s EXCEPT !.tx.client_addr = p.from],
                            [ZeroHeader EXCEPT !.frame_id = 0,
                                               !.frame_type = VTX_DATA_CONNECTED], <<>>)
           IN [s1 EXCEPT !.tx.connect_send_time_ms = now_ms,
                         !.tx.connect_retrans_count = 0]
      [] p.frame_type = VTX_DATA_DISCONNECT ->
           [TxEmit(s, ack(0), <<>>) EXCEPT !.tx.connected = FALSE,
                                           !.tx.connect_retrans_count = 0,
                                           !.tx.heartbeat_miss_count = 0]
      [] p.frame_type = VTX_DATA_HEARTBEAT ->
           [TxEmit(s, ack(0), <<>>) EXCEPT !.tx.last_heartbeat_ms = now_ms,
                                           !.tx.heartbeat_miss_count = 0]
      [] p.frame_type = VTX_DATA_START -> TxRecvStart(s, p)
      [] p.frame_type = VTX_DATA_STOP ->
           TxCall(s, Callback("media_fn", VTX_DATA_STOP, FALSE, <<>>))
      [] p.frame_type = VTX_DATA_USER ->
           TxCall(TxEmit(s, ack(p.frame_id), <<>>),
                  Callback("data_fn", VTX_DATA_USER, TRUE, p.payload))
      [] OTHER -> s

NotReady_Never(ep) == FALSE

\* vtx_tx_send, vtx_tx_send_media, vtx_rx_send: if (!connected) return VTX_ERR_NOT_READY
NotReady(ep) == ~ep.connected

\* vtx_tx_send(tx, data, size): the result code and the running state
TxSendData(s, data, now_ms) ==
    LET tx == s.tx
        size == Len(data)
        a == vtx_frame_pool_acquire(tx.data_pool)
        i == a.f
    IN
    IF size = 0 THEN [ret |-> "INVALID_PARAM", s |-> s]
    ELSE IF NotReady(tx) THEN [ret |-> "NOT_READY", s |-> s]
    ELSE IF size > CtrlCap THEN [ret |-> "PACKET_TOO_LARGE", s |-> s]
    ELSE IF i = 0 THEN [ret |-> "NO_MEMORY", s |-> s]
    ELSE LET pool1 == [a.pool EXCEPT !.frames[i].frame_id = tx.frame_id,
                                     !.frames[i].frame_type = VTX_DATA_USER,
                                     !.frames[i].data_size = size,
                                     !.frames[i].data = BufWrite(@, 0, data, size),
                                     !.frames[i].send_time_ms = now_ms]
             s1 == TxEmit([s EXCEPT !.tx.data_pool = pool1, !.tx.frame_id = @ + 1],
                          [ZeroHeader EXCEPT !.frame_id = tx.frame_id,
                                             !.frame_type = VTX_DATA_USER,
                                             !.frag_index = 0, !.total_frags = 1,
                                             !.payload_size = size],
                          BufSlice(pool1.frames[i].data, 0, size))
             pq == vtx_frame_queue_push([pool |-> s1.tx.data_pool, q |-> s1.tx.data_queue], i)
         IN [ret |-> "OK",
             s |-> [s1 EXCEPT !.tx.data_queue = pq.q,
                              !.tx.data_pool = vtx_frame_release(pq.pool, i)]]

IsIframe_AnyType(f) == TRUE

\* vtx_tx_send_media: frame->frame_type == VTX_FRAME_I, the test that gives a
\* frame its tracker and caches it
IsIframe(f) == f.frame_type = VTX_FRAME_I

\* vtx_tx_send_media, the fragment loop from fragment k on
RECURSIVE TxSendFrags(_, _, _, _)
TxSendFrags(s, i, k, now_ms) ==
    LET f == s.tx.media_pool.frames[i]
        payload_capacity == s.tx.config.mtu - VTX_PACKET_HEADER_SIZE
        offset == k * payload_capacity
        payload_size == Min(f.data_size - offset, payload_capacity)
        seq == s.tx.seq_num
        s1 == TxEmit(s, [ZeroHeader EXCEPT !.frame_id = f.frame_id,
                                           !.frame_type = f.frame_type,
                                           !.frag_index = k,
                                           !.total_frags = f.total_frags,
                                           !.payload_size = payload_size,
                                           !.flags = IF k = f.total_frags - 1
                                                     THEN VTX_FLAG_LAST_FRAG ELSE 0],
                     BufSlice(f.data, offset, payload_size))
        s2 == IF IsIframe(f) /\ HasTracker(f)
              THEN [s1 EXCEPT !.tx.media_pool.frames[i].retran.frag[k + 1] =
                                 [frag_index |-> k, received |-> FALSE, retrans_count |-> 0,
                                  send_time_ms |-> now_ms, seq_num |-> seq]]
              ELSE s1
    IN IF k >= f.total_frags THEN s ELSE TxSendFrags(s2, i, k + 1, now_ms)

TxCacheIframe_KeepOld(s, i) ==
    IF s.tx.last_iframe /= 0 THEN s
    ELSE [s EXCEPT !.tx.last_iframe = i, !.tx.media_pool = vtx_frame_retain(@, i)]

\* vtx_tx_send_media, caching the I-frame in place of the previous one
TxCacheIframe(s, i) ==
    LET old == s.tx.last_iframe
        s1 == IF old = 0 THEN s
              ELSE [s EXCEPT
                      !.tx.frag_pool = vtx_frag_pool_release(@, s.tx.media_pool.frames[old].retran),
                      !.tx.media_pool = vtx_frame_release(
                          [@ EXCEPT !.frames[old].retran = NoTrackerRec], old)]
    IN [s1 EXCEPT !.tx.last_iframe = i, !.tx.media_pool = vtx_frame_retain(@, i)]

\* vtx_tx_send_media(tx, frame) for the frame in slot i of the media pool
TxSendMediaFrame(s, i, now_ms) ==
    LET tx == s.tx
        f == tx.media_pool.frames[i]
        payload_capacity == tx.config.mtu - VTX_PACKET_HEADER_SIZE
        total_frags == (f.data_size + payload_capacity - 1) \div payload_capacity
        rel(ret) == [ret |-> ret, s |-> [s EXCEPT !.tx.media_pool = vtx_frame_release(@, i)]]
        a == vtx_frag_pool_acquire(tx.frag_pool, total_frags)
        s1 == [s EXCEPT !.tx.media_pool.frames[i].frame_id = tx.frame_id,
                        !.tx.media_pool.frames[i].send_time_ms = now_ms,
                        !.tx.media_pool.frames[i].total_frags = total_frags,
                        !.tx.frame_id = @ + 1]
        s2 == IF IsIframe(f)
              THEN [s1 EXCEPT !.tx.frag_pool = a.fp, !.tx.media_pool.frames[i].retran = a.t]
              ELSE s1
        s3 == TxSendFrags(s2, i, 0, now_ms)
        s4 == IF IsIframe(f) THEN TxCacheIframe(s3, i) ELSE s3
    IN
    IF NotReady(tx) THEN rel("NOT_READY")
    ELSE IF f.data_size = 0 \/ f.data_size > Len(f.data) THEN rel("INVALID_PARAM")
    ELSE IF IsIframe(f) /\ a.t = NoTrackerRec
    THEN [ret |-> "NO_MEMORY",
          s |-> [s1 EXCEPT !.tx.media_pool = vtx_frame_release(@, i)]]
    ELSE [ret |-> "OK", s |-> [s4 EXCEPT !.tx.media_pool = vtx_frame_release(@, i)]]

\* vtx_tx_accept: one turn of the wait loop that got the datagram p; the loop
\* runs while (tx->running && !tx->connected) and checks the type only
vtx_tx_accept(s, p) ==
    IF p.frame_type = VTX_DATA_CONNECT
    THEN TxEmit([s EXCEPT !.tx.client_addr = p.from, !.tx.connected = TRUE],
                [ZeroHeader EXCEPT !.frame_type = VTX_DATA_CONNECTED, !.total_frags = 1],
                <<>>)
    ELSE s

\* vtx_tx_close: one DISCONNECT if connected
vtx_tx_close(s) ==
    IF s.tx.connected
    THEN [TxEmit(s, [ZeroHeader EXCEPT !.frame_type = VTX_DATA_DISCONNECT], <<>>)
            EXCEPT !.tx.connected = FALSE]
    ELSE s

(* ---------------- the RX endpoint (vtx_rx.c) ---------------- *)

\* vtx_rx_create: mtu and frame_timeout_ms get their defaults when 0
vtx_rx_create(config) ==
    [connected |-> FALSE, server_addr |-> "tx",
     config |-> [config EXCEPT
                   !.mtu = IF @ = 0 THEN VTX_DEFAULT_MTU ELSE @,
                   !.frame_timeout_ms = IF @ = 0 THEN VTX_DEFAULT_FRAME_TIMEOUT_MS ELSE @],
     media_pool |-> vtx_frame_pool_create(VTX_FRAME_POOL_INIT_SIZE, MediaCap),
     data_pool |-> vtx_frame_pool_create(VTX_FRAME_POOL_INIT_SIZE * 4, CtrlCap),
     frag_pool |-> vtx_frag_pool_create,
     recv_queue |-> <<>>, data_queue |-> <<>>, last_iframe |-> 0,
     seq_num |-> 0, frame_id |-> 0,
     stats |-> [dup_packets |-> 0, incomplete_frames |-> 0],
     running |-> TRUE]

\* RX's vtx_send_packet: the header goes out as it is, to rx->server_addr
RxSendPacket(rx, h, payload) ==
    [Packet(h, payload) EXCEPT !.from = "rx", !.to = rx.server_addr]

\* a handler's running state: the endpoint, the datagrams sent, the callbacks made
RxRun(rx) == [rx |-> rx, out |-> {}, cb |-> <<>>]

RxEmit(s, h, payload) ==
    [s EXCEPT !.out = @ \cup {RxSendPacket(s.rx, [h EXCEPT !.seq_num = s.rx.seq_num], payload)},
              !.rx.seq_num = @ + 1]

vtx_send_ack(s, frame_id) ==
    RxEmit(s, [ZeroHeader EXCEPT !.frame_id = frame_id, !.frame_type = VTX_DATA_ACK], <<>>)

\* the frame callback: what frame_fn is handed, and the state of the frame it
\* is handed at that moment
FrameCallback(rx, i, frame_id) ==
    LET f == rx.media_pool.frames[i] IN
    [fn |-> "frame_fn", type |-> f.frame_type, has |-> TRUE,
     data |-> BufSlice(f.data, 0, f.data_size),
     frame_id |-> frame_id, slot |-> i, refcount |-> f.refcount, state |-> f.state,
     in_free_list |-> \E k \in 1..Len(rx.media_pool.free) : rx.media_pool.free[k] = i]

\* vtx_handle_fragment from the duplicate check on, for the frame in slot i
RxStoreFragment(s, p, i, now_ms) ==
    LET f == s.rx.media_pool.frames[i]
        offset == vtx_packet_calc_frag_offset(p.frag_index, s.rx.config.mtu)
        f1 == vtx_frame_mark_frag_received(
                [f EXCEPT !.data = BufWrite(@, offset, p.payload, p.payload_size),
                          !.data_size = @ + p.payload_size],
                p.frag_index, now_ms)
        s1 == [s EXCEPT !.rx.media_pool.frames[i] = f1]
        s2 == IF p.frame_type = VTX_FRAME_I
              THEN RxEmit(s1, [ZeroHeader EXCEPT !.frame_id = p.frame_id,
                                                 !.frag_index = p.frag_index,
                                                 !.frame_type = VTX_DATA_ACK], <<>>)
              ELSE s1
        pq == vtx_frame_queue_remove([pool |-> s2.rx.media_pool, q |-> s2.rx.recv_queue], i)
        s3 == [s2 EXCEPT !.rx.media_pool = pq.pool, !.rx.recv_queue = pq.q]
        s4 == IF p.frame_type = VTX_FRAME_I
              THEN [s3 EXCEPT !.rx.media_pool =
                                 vtx_frame_retain(vtx_frame_release(@, s3.rx.last_iframe), i),
                              !.rx.last_iframe = i]
              ELSE s3
    IN
    IF vtx_frame_has_frag(f, p.frag_index)
    THEN [s EXCEPT !.rx.stats.dup_packets = @ + 1]
    ELSE IF offset + p.payload_size > Len(f.data) THEN s
    ELSE IF vtx_frame_is_complete(f1)
    THEN [s4 EXCEPT !.cb = Append(@, FrameCallback(s4.rx, i, p.frame_id))]
    ELSE s2

\* vtx_handle_fragment: find the frame of the fragment or start a new one
vtx_handle_fragment(s, p, now_ms) ==
    LET rx == s.rx
        found == vtx_frame_queue_find([pool |-> rx.media_pool, q |-> rx.recv_queue],
                                      p.frame_id)
        a == vtx_frame_pool_acquire(rx.media_pool)
        t == vtx_frag_pool_acquire(rx.frag_pool, p.total_frags)
        init == [a.pool EXCEPT !.frames[a.f] =
                    vtx_frame_init_recv(@, t.t, p.frame_id, p.frame_type,
                                        p.total_frags, now_ms)]
        pq == vtx_frame_queue_push([pool |-> init, q |-> rx.recv_queue], a.f)
    IN
    IF found /= 0 THEN RxStoreFragment(s, p, found, now_ms)
    ELSE IF a.f = 0 THEN s
    ELSE IF t.t = NoTrackerRec
    THEN [s EXCEPT !.rx.media_pool =
                      vtx_frame_release([a.pool EXCEPT !.frames[a.f].frame_id = p.frame_id,
                                                       !.frames[a.f].frame_type = p.frame_type,
                                                       !.frames[a.f].total_frags = p.total_frags,
                                                       !.frames[a.f].state = "RECEIVING"],
                                        a.f)]
    ELSE RxStoreFragment([s EXCEPT !.rx.frag_pool = t.fp,
                                   !.rx.recv_queue = pq.q,
                                   !.rx.media_pool = vtx_frame_release(pq.pool, a.f)],
                         p, a.f, now_ms)

\* RX's vtx_process_retrans_queue: one frame of the pass over the data queue
RxSweepDataFrame(s, i, now_ms) ==
    LET f == s.rx.data_pool.frames[i] IN
    IF f.retrans_count >= RX_DATA_MAX_RETRANS
    THEN [s EXCEPT !.rx.data_queue = RemoveFirst(@, i),
                   !.rx.data_pool = vtx_frame_release(@, i)]
    ELSE IF now_ms - f.send_time_ms >= RX_DATA_RETRANS_TIMEOUT_MS
    THEN RxEmit([s EXCEPT !.rx.data_pool.frames[i].retrans_count = @ + 1,
                          !.rx.data_pool.frames[i].send_time_ms = now_ms],
                [ZeroHeader EXCEPT !.frame_id = f.frame_id,
                                   !.frame_type = VTX_DATA_USER,
                                   !.frag_index = 0, !.total_frags = 1,
                                   !.payload_size = f.data_size,
                                   !.flags = VTX_FLAG_RETRANS],
                BufSlice(f.data, 0, f.data_size))
    ELSE s

RECURSIVE RxSweepData(_, _, _)
RxSweepData(s, todo, now_ms) ==
    IF todo = <<>> THEN s
    ELSE RxSweepData(RxSweepDataFrame(s, Head(todo), now_ms), Tail(todo), now_ms)

RxProcessRetransQueue(s, now_ms) == RxSweepData(s, s.rx.data_queue, now_ms)

\* the result code of vtx_handle_fragment
RxFragmentRet(s, p) ==
    LET rx == s.rx
        found == vtx_frame_queue_find([pool |-> rx.media_pool, q |-> rx.recv_queue],
                                      p.frame_id)
        a == vtx_frame_pool_acquire(rx.media_pool)
        t == vtx_frag_pool_acquire(rx.frag_pool, p.total_frags)
        f == IF found /= 0 THEN rx.media_pool.frames[found] ELSE a.pool.frames[a.f]
        tracked == IF found /= 0 THEN vtx_frame_has_frag(f, p.frag_index) ELSE FALSE
        offset == vtx_packet_calc_frag_offset(p.frag_index, rx.config.mtu)
    IN
    IF found = 0 /\ a.f = 0 THEN VTX_ERR_NO_MEMORY
    ELSE IF found = 0 /\ t.t = NoTrackerRec THEN VTX_ERR_NO_MEMORY
    ELSE IF tracked THEN VTX_OK
    ELSE IF offset + p.payload_size > Len(f.data) THEN VTX_ERR_OVERFLOW
    ELSE VTX_OK

\* vtx_recv_packet after recvfrom returned the datagram p: the result code
\* (1 is "one packet handled") and the running state
vtx_recv_packet(s, p, now_ms) ==
    LET hdr == [f \in DOMAIN ZeroHeader |-> p[f]]
        s1 == vtx_send_ack(s, p.frame_id)
        frame == vtx_frame_queue_find([pool |-> s1.rx.data_pool, q |-> s1.rx.data_queue],
                                      p.frame_id)
        pq == vtx_frame_queue_remove([pool |-> s1.rx.data_pool, q |-> s1.rx.data_queue],
                                     frame)
    IN
    IF ~vtx_packet_verify(p) THEN [ret |-> VTX_ERR_CHECKSUM, s |-> s]
    ELSE IF ~vtx_packet_validate_header(hdr) THEN [ret |-> VTX_ERR_PACKET_INVALID, s |-> s]
    ELSE IF p.frame_type >= VTX_FRAME_I /\ p.frame_type <= VTX_FRAME_A
    THEN [ret |-> RxFragmentRet(s1, p), s |-> vtx_handle_fragment(s1, p, now_ms)]
    ELSE [ret |-> 1,
          s |-> CASE p.frame_type = VTX_DATA_ACK ->
                       IF frame /= 0
                       THEN [s1 EXCEPT !.rx.data_queue = pq.q,
                                       !.rx.data_pool = vtx_frame_release(pq.pool, frame)]
                       ELSE s1
                  [] p.frame_type = VTX_DATA_DISCONNECT ->
                       [s1 EXCEPT !.rx.connected = FALSE,
                                  !.cb = Append(@, Callback("connect_fn", 0, FALSE, <<>>))]
                  [] p.frame_type = VTX_DATA_USER ->
                       [s1 EXCEPT !.cb = Append(@, Callback("data_fn", VTX_DATA_USER,
                                                            TRUE, p.payload))]
                  [] OTHER -> s1]

\* vtx_rx_send(rx, data, size): the result code and the running state
RxSendData(s, data, now_ms) ==
    LET rx == s.rx
        size == Len(data)
        a == vtx_frame_pool_acquire(rx.data_pool)
        i == a.f
    IN
    IF size = 0 THEN [ret |-> "INVALID_PARAM", s |-> s]
    ELSE IF NotReady(rx) THEN [ret |-> "NOT_READY", s |-> s]
    ELSE IF size > CtrlCap THEN [ret |-> "PACKET_TOO_LARGE", s |-> s]
    ELSE IF i = 0 THEN [ret |-> "NO_MEMORY", s |-> s]
    ELSE LET pool1 == [a.pool EXCEPT !.frames[i].frame_id = rx.frame_id,
                                     !.frames[i].frame_type = VTX_DATA_USER,
                                     !.frames[i].data_size = size,
                                     !.frames[i].data = BufWrite(@, 0, data, size),
                                     !.frames[i].send_time_ms = now_ms]
             s1 == RxEmit([s EXCEPT !.rx.data_pool = pool1, !.rx.frame_id = @ + 1],
                          [ZeroHeader EXCEPT !.frame_id = rx.frame_id,
                                             !.frame_type = VTX_DATA_USER,
                                             !.frag_index = 0, !.total_frags = 1,
                                             !.payload_size = size],
                          BufSlice(pool1.frames[i].data, 0, size))
             pq == vtx_frame_queue_push([pool |-> s1.rx.data_pool, q |-> s1.rx.data_queue], i)
         IN [ret |-> "OK",
             s |-> [s1 EXCEPT !.rx.data_queue = pq.q,
                              !.rx.data_pool = vtx_frame_release(pq.pool, i)]]

\* vtx_rx_poll, the branch of a select that timed out
RxPollTimeoutRun(s, now_ms) ==
    LET s1 == RxProcessRetransQueue(s, now_ms)
        c == vtx_frame_queue_cleanup_timeout(
                 [pool |-> s1.rx.media_pool, q |-> s1.rx.recv_queue],
                 now_ms, s1.rx.config.frame_timeout_ms)
    IN [s1 EXCEPT !.rx.media_pool = c.pq.pool, !.rx.recv_queue = c.pq.q,
                  !.rx.stats.incomplete_frames = @ + c.cleaned]

\* vtx_rx_connect: the CONNECT request
RxConnectSend(s) ==
    RxEmit(s, [ZeroHeader EXCEPT !.frame_type = VTX_DATA_CONNECT], <<>>)

RxConnectRecv_NoConnect(s, p, now_ms) == vtx_recv_packet(s, p, now_ms).s

\* vtx_rx_connect: one turn of the wait loop that got the datagram p
RxConnectRecv(s, p, now_ms) ==
    LET r == vtx_recv_packet(s, p, now_ms) IN
    IF r.ret > 0
    THEN [r.s EXCEPT !.rx.connected = TRUE,
                     !.cb = Append(@, Callback("connect_fn", 1, FALSE, <<>>))]
    ELSE r.s

\* vtx_rx_close: one DISCONNECT if connected, and connect_fn(false)
vtx_rx_close(s) ==
    IF s.rx.connected
    THEN [RxEmit(s, [ZeroHeader EXCEPT !.frame_type = VTX_DATA_DISCONNECT], <<>>)
            EXCEPT !.rx.connected = FALSE,
                   !.cb = Append(@, Callback("connect_fn", 0, FALSE, <<>>))]
    ELSE s

(* ---------------- the system: two endpoints and the network ---------------- *)

VARIABLES
    tx,         \* the TX endpoint
    rx,         \* the RX endpoint
    net,        \* datagrams in flight
    now,        \* vtx_get_time_ms()
    txCb,       \* history: the callbacks TX made
    rxCb,       \* history: the callbacks RX made
    txSent,     \* history: every datagram TX sent
    rxSent,     \* history: every datagram RX sent
    rxRecvd,    \* history: how often each datagram was handed to RX
    submitted,  \* history: the media frames the application gave to TX
    sentData,   \* history: the datagrams the applications gave to vtx_*_send
    dups,       \* history: duplications by the network so far
    drops,      \* history: datagrams lost by the network so far
    swept,      \* history: TX ran its timeout sweep at the present time
    rxCall,     \* the application thread of RX: the call it is in, and the
                \* start_ms of vtx_rx_connect
    threads,    \* the threads of TX between atomic_fetch_add(&tx->seq_num, 1)
                \* and the sendto of the packet that carries the number
    hist,       \* history: heard, the time TX last entered Connected or got a
                \* HEARTBEAT; polled, RX ran its timeout branch at the present
                \* time; order, the sequence numbers of TX in the order of sendto;
                \* damaged, the datagrams that were altered on the way;
                \* other, the packets a third party sent
    mem,        \* a frame pool and a frame queue shared by threads: the pool,
                \* the queue, each thread's position and references, and the
                \* history of what was handed out and returned
    calc,       \* calls of functions of vtx_packet.c and of the copy functions of
                \* vtx_frame.c: their arguments and results
    lib         \* g_vtx of vtx.c, and the last call made on it with its result

endpoints == <<tx, rx, net, now, txCb, rxCb, txSent, rxSent, rxRecvd, submitted, sentData, dups, drops,
               swept, rxCall, threads, hist>>

vars == <<tx, rx, net, now, txCb, rxCb, txSent, rxSent, rxRecvd, submitted, sentData, dups, drops, swept,
          rxCall, threads, hist, mem, calc, lib>>

\* the bytes of the n-th media frame and of the n-th datagram of the application
MediaBytes(n, size) == [k \in 1..size |-> 10 * (n + 1) + k]
DataBytes(n, size) == [k \in 1..size |-> 100 + 10 * n + k]

Count(f, p) == IF p \in DOMAIN f THEN f[p] ELSE 0
Bump(f, p) == [q \in DOMAIN f \cup {p} |-> IF q = p THEN Count(f, p) + 1 ELSE f[q]]

\* the handshake of vtx_rx_connect against vtx_tx_poll at time t, no loss:
\* CONNECT, CONNECTED, the ACK of CONNECTED. Each step is given the running
\* states of the steps before it: r0 sent CONNECT, t1 answered CONNECTED,
\* r1 acknowledged it, t2 got the ACK.
Only(out) == CHOOSE p \in out : TRUE

HandshakeDone(r0, t1, r1, t2) ==
    [tx |-> t2.tx, rx |-> r1.rx, txCb |-> t2.cb, rxCb |-> r1.cb,
     txSent |-> t1.out \cup t2.out, rxSent |-> r0.out \cup r1.out]

HandshakeAck(r0, t1, r1, t) ==
    HandshakeDone(r0, t1, r1, TxRecv([t1 EXCEPT !.out = {}], Only(r1.out), t))

HandshakeConnected(r0, t1, t) ==
    HandshakeAck(r0, t1, RxConnectRecv([r0 EXCEPT !.out = {}], Only(t1.out), t), t)

HandshakeConnect(txc, r0, t) ==
    HandshakeConnected(r0, TxRecv(TxRun(vtx_tx_create(txc)), Only(r0.out), t), t)

Handshake(txc, rxc, t) ==
    HandshakeConnect(txc, RxConnectSend(RxRun(vtx_rx_create(rxc))), t)

\* the threads of TX that emit packets: the application thread in
\* vtx_tx_send_media, the application thread in vtx_tx_send, the thread in
\* vtx_tx_poll; NoSeq is a thread that holds no fetched sequence number
Threads == {"media", "data", "poll"}
NoSeq == [pc |-> "idle", seq |-> 0]

\* no pool is shared, no function was called, the library is as loaded
NoMem == [pool |-> << >>]
NoCalc == [fn |-> "none"]
NoLib == [initialized |-> 0, mem_limit |-> 0, call |-> "none", ret |-> 0]

\* the system at time 1: h holds the two endpoints and what they did so far
InitEndpoints(h) ==
    /\ tx = h.tx /\ rx = h.rx
    /\ net = {}
    /\ now = 1
    /\ txCb = h.txCb /\ rxCb = h.rxCb
    /\ txSent = h.txSent /\ rxSent = h.rxSent
    /\ rxRecvd = << >>
    /\ submitted = << >>
    /\ sentData = << >>
    /\ dups = 0
    /\ drops = 0
    /\ swept = FALSE
    /\ rxCall = [pc |-> "poll", start_ms |-> 0]
    /\ threads = [th \in Threads |-> NoSeq]
    /\ hist = [heard |-> IF h.tx.connected THEN 1 ELSE 0, polled |-> FALSE, order |-> << >>,
               damaged |-> 0, other |-> 0]

InitFrom(h) == InitEndpoints(h) /\ mem = NoMem /\ calc = NoCalc /\ lib = NoLib

InitConnected(txc, rxc) == InitFrom(Handshake(txc, rxc, 1))

\* a handler of TX ran: its datagrams go out, its callbacks are on record
TxDone(s, netNow) ==
    /\ tx' = s.tx
    /\ net' = netNow \cup s.out
    /\ txSent' = txSent \cup s.out
    /\ txCb' = txCb \o s.cb

RxDone(s, netNow) ==
    /\ rx' = s.rx
    /\ net' = netNow \cup s.out
    /\ rxSent' = rxSent \cup s.out
    /\ rxCb' = rxCb \o s.cb

\* the slots of the retained I-frame that are neither acknowledged nor abandoned
PendingSlots(t) ==
    IF t.last_iframe = 0 THEN {}
    ELSE LET r == t.media_pool.frames[t.last_iframe].retran IN
         {k \in 0..(r.num - 1) : ~r.frag[k + 1].received}

\* the application takes a frame with vtx_tx_alloc_media_frame, fills it and
\* gives it to vtx_tx_send_media; frames are spaced out: the datagrams of the
\* frame before have arrived or are lost
TxSubmitMediaUpTo(type, size, max) ==
    LET a == vtx_frame_pool_acquire(tx.media_pool)
        data == MediaBytes(Len(submitted), size)
        filled == [a.pool EXCEPT !.frames[a.f].frame_type = type,
                                 !.frames[a.f].data_size = size,
                                 !.frames[a.f].data = BufWrite(@, 0, data, size)]
        r == TxSendMediaFrame(TxRun([tx EXCEPT !.media_pool = filled]), a.f, now)
    IN /\ Len(submitted) < max
       /\ net = {}
       /\ a.f /= 0
       /\ TxDone(r.s, net)
       /\ submitted' = Append(submitted, [frame_id |-> tx.frame_id, type |-> type,
                                          data |-> data, ret |-> r.ret, at |-> now,
                                          old_pending |-> PendingSlots(tx)])
       /\ UNCHANGED <<mem, calc, lib, rxCall, threads, hist, rx, now, rxCb, rxSent, rxRecvd, sentData, dups, drops, swept>>

TxSubmitMedia(type, size) == TxSubmitMediaUpTo(type, size, MaxSubmit)

\* vtx_tx_send by the application of TX
TxSend(size) ==
    LET data == DataBytes(Len(sentData), size)
        r == TxSendData(TxRun(tx), data, now)
    IN /\ Len(sentData) < MaxSend
       /\ TxDone(r.s, net)
       /\ sentData' = Append(sentData, [by |-> "tx", frame_id |-> tx.frame_id,
                                        data |-> data, ret |-> r.ret, at |-> now])
       /\ UNCHANGED <<mem, calc, lib, rxCall, threads, hist, rx, now, rxCb, rxSent, rxRecvd, submitted, dups, drops, swept>>

\* vtx_rx_send by the application of RX
RxSend(size) ==
    LET data == DataBytes(Len(sentData), size)
        r == RxSendData(RxRun(rx), data, now)
    IN /\ Len(sentData) < MaxSend
       /\ RxDone(r.s, net)
       /\ sentData' = Append(sentData, [by |-> "rx", frame_id |-> rx.frame_id,
                                        data |-> data, ret |-> r.ret, at |-> now])
       /\ UNCHANGED <<mem, calc, lib, rxCall, threads, hist, tx, now, txCb, txSent, rxRecvd, submitted, dups, drops, swept>>

\* vtx_tx_poll, select reports a datagram: vtx_recv
TxPollRecvDone(p, s) ==
    /\ TxDone(s, net \ {p})
    /\ hist' = [hist EXCEPT !.heard = IF \/ p.frame_type = VTX_DATA_HEARTBEAT
                                         \/ (s.tx.connected /\ ~tx.connected)
                                      THEN now ELSE @]

TxPollRecv(p) ==
    /\ p \in net /\ p.to = "tx"
    /\ TxPollRecvDone(p, TxRecv(TxRun(tx), p, now))
    /\ UNCHANGED <<mem, calc, lib, rxCall, threads, rx, now, rxCb, rxSent, rxRecvd, submitted, sentData, dups, drops, swept>>

\* vtx_tx_poll, select timed out: vtx_process_retrans_queue
TxPollTimeout ==
    /\ TxDone(TxProcessRetransQueue(TxRun(tx), now), net)
    /\ swept' = TRUE
    /\ UNCHANGED <<mem, calc, lib, rxCall, threads, hist, rx, now, rxCb, rxSent, rxRecvd, submitted, sentData, dups, drops>>

\* vtx_rx_poll, select reports a datagram: vtx_recv_packet
RxPollRecv(p) ==
    /\ p \in net /\ p.to = "rx"
    /\ RxDone(vtx_recv_packet(RxRun(rx), p, now).s, net \ {p})
    /\ rxRecvd' = Bump(rxRecvd, p)
    /\ UNCHANGED <<mem, calc, lib, rxCall, threads, hist, tx, now, txCb, txSent, submitted, sentData, dups, drops, swept>>

\* the same, for a datagram the network delivers twice: the copy stays in flight
RxPollRecvDup(p) ==
    /\ p \in net /\ p.to = "rx"
    /\ dups < MaxDup
    /\ RxDone(vtx_recv_packet(RxRun(rx), p, now).s, net)
    /\ rxRecvd' = Bump(rxRecvd, p)
    /\ dups' = dups + 1
    /\ UNCHANGED <<mem, calc, lib, rxCall, threads, hist, tx, now, txCb, txSent, submitted, sentData, drops, swept>>

\* vtx_rx_poll, select timed out
RxPollTimeout ==
    /\ RxDone(RxPollTimeoutRun(RxRun(rx), now), net)
    /\ UNCHANGED <<mem, calc, lib, rxCall, threads, hist, tx, now, txCb, txSent, rxRecvd, submitted, sentData, dups, drops, swept>>

\* the network loses a datagram
Drop(p, max) ==
    /\ p \in net
    /\ drops < max
    /\ net' = net \ {p}
    /\ drops' = drops + 1
    /\ UNCHANGED <<mem, calc, lib, rxCall, threads, hist, tx, rx, now, txCb, rxCb, txSent, rxSent, rxRecvd, submitted, sentData, dups, swept>>

\* time passes
Tick(ms, max) ==
    /\ now + ms <= max
    /\ now' = now + ms
    /\ swept' = FALSE
    /\ UNCHANGED <<mem, calc, lib, rxCall, threads, hist, tx, rx, net, txCb, rxCb, txSent, rxSent, rxRecvd, submitted, sentData, dups, drops>>

(* ---------------- media frames over a lossy network ---------------- *)

TxConfigMedia ==
    [mtu |-> Mtu, retrans_timeout_ms |-> MediaRetransTimeoutMs,
     max_retrans |-> MediaMaxRetrans, data_retrans_timeout_ms |-> 0,
     data_max_retrans |-> 0, connect_timeout_ms |-> 0, connect_max_retrans |-> 0,
     heartbeat_interval_ms |-> 0, heartbeat_max_miss |-> 0]

RxConfigMedia ==
    [mtu |-> Mtu, frame_timeout_ms |-> 0, data_retrans_timeout_ms |-> 0,
     data_max_retrans |-> 0, heartbeat_interval_ms |-> 0]

InitMedia == InitConnected(TxConfigMedia, RxConfigMedia)

\* in the specifications of this section the network delivers or loses a
\* datagram within the millisecond it was sent in: time passes with no datagram
\* in flight

MediaSizes == {1, MediaCap - 1, MediaCap}

NextMedia ==
    \/ \E type \in {VTX_FRAME_I, VTX_FRAME_P}, size \in MediaSizes :
          TxSubmitMedia(type, size)
    \/ \E p \in net : TxPollRecv(p)
    \/ \E p \in net : RxPollRecv(p)
    \/ \E p \in net : RxPollRecvDup(p)
    \/ \E p \in net : Drop(p, MaxDrop)
    \/ TxPollTimeout
    \/ RxPollTimeout
    \/ (net = {} /\ Tick(1, MaxTimeMedia))

SpecMedia == InitMedia /\ [][NextMedia]_vars

(* ---------------- I-frames, their ACKs and the retransmission sweep ---------------- *)

NextRetrans ==
    \/ \E type \in {VTX_FRAME_I, VTX_FRAME_P, VTX_FRAME_A} :
          TxSubmitMedia(type, MediaCap - 1)
    \/ \E p \in net : TxPollRecv(p)
    \/ \E p \in net : RxPollRecv(p)
    \/ \E p \in net : Drop(p, MaxDropRetrans)
    \/ TxPollTimeout
    \/ RxPollTimeout
    \/ (net = {} /\ Tick(1, MaxTimeRetrans))

SpecRetrans == InitMedia /\ [][NextRetrans]_vars

(* ---------------- reliable datagrams in both directions ---------------- *)

TxConfigData ==
    [mtu |-> Mtu, retrans_timeout_ms |-> 0, max_retrans |-> 0,
     data_retrans_timeout_ms |-> TxDataRetransTimeoutMs,
     data_max_retrans |-> TxDataMaxRetrans, connect_timeout_ms |-> 0,
     connect_max_retrans |-> 0, heartbeat_interval_ms |-> 0, heartbeat_max_miss |-> 0]

RxConfigData ==
    [mtu |-> Mtu, frame_timeout_ms |-> 0,
     data_retrans_timeout_ms |-> TxDataRetransTimeoutMs,
     data_max_retrans |-> RxCfgDataMaxRetrans, heartbeat_interval_ms |-> 0]

InitData == InitConnected(TxConfigData, RxConfigData)

NextData ==
    \/ \E size \in 1..CtrlCap : TxSend(size)
    \/ \E size \in 1..CtrlCap : RxSend(size)
    \/ \E p \in net : TxPollRecv(p)
    \/ \E p \in net : RxPollRecv(p)
    \/ \E p \in net : Drop(p, MaxDropData)
    \/ TxPollTimeout
    \/ RxPollTimeout
    \/ Tick(DataTickMs, 1 + DataTickMs * MaxDataTicks)

SpecData == InitData /\ [][NextData]_vars

(* ---------------- properties: reassembly at RX ---------------- *)

IsMedia(p) == p.frame_type >= VTX_FRAME_I /\ p.frame_type <= VTX_FRAME_A

\* the deliveries to RX of fragment k of frame fid, first transmissions and
\* retransmissions alike
FragDeliveries(fid, k) ==
    {p \in DOMAIN rxRecvd : IsMedia(p) /\ p.frame_id = fid /\ p.frag_index = k}

DeliveredOnce(fid, k) ==
    \E p \in FragDeliveries(fid, k) : FragDeliveries(fid, k) = {p} /\ rxRecvd[p] = 1

\* every fragment of the n-th submitted frame was handed to RX exactly once
EveryFragmentOnce(n) ==
    /\ submitted[n].ret = "OK"
    /\ \A k \in 0..(vtx_packet_calc_frags(Len(submitted[n].data), tx.config.mtu) - 1) :
          DeliveredOnce(submitted[n].frame_id, k)

FrameCallbacks(fid) ==
    {k \in 1..Len(rxCb) : rxCb[k].fn = "frame_fn" /\ rxCb[k].frame_id = fid}

\* C1: a frame whose fragments were each delivered to RX exactly once, in
\* whatever order, has been given to the frame callback with the length and
\* the bytes that TX's application submitted.
C1_ReassembledEqualsSubmitted ==
    \A n \in 1..Len(submitted) :
        EveryFragmentOnce(n) =>
            \E k \in FrameCallbacks(submitted[n].frame_id) :
                /\ Len(rxCb[k].data) = Len(submitted[n].data)
                /\ rxCb[k].data = submitted[n].data

\* C2: the frame handed to the frame callback is still referenced while the
\* callback runs: it is complete, its reference count is positive and it is
\* not back in the free list of its pool (not reset).
C2_FrameHeldDuringCallback ==
    \A k \in 1..Len(rxCb) :
        rxCb[k].fn = "frame_fn" =>
            /\ rxCb[k].refcount > 0
            /\ ~rxCb[k].in_free_list
            /\ rxCb[k].state = "COMPLETE"

\* RX handles the datagram p in this step
RxHandles(p) == RxPollRecv(p) \/ RxPollRecvDup(p)

\* C10: when a fragment that was delivered to RX before is delivered again,
\* the step changes no frame of RX (buffer, length, recv_frags, tracker), no
\* reassembly entry and makes no callback: it only increments dup_packets.
C10_DuplicateOnlyCounts ==
    [][\A p \in net :
          (/\ p.to = "rx" /\ IsMedia(p)
           /\ FragDeliveries(p.frame_id, p.frag_index) /= {}
           /\ RxHandles(p))
          => /\ rx'.media_pool = rx.media_pool
             /\ rx'.recv_queue = rx.recv_queue
             /\ rx'.last_iframe = rx.last_iframe
             /\ rxCb' = rxCb
             /\ rx'.stats.dup_packets = rx.stats.dup_packets + 1]_vars

(* ---------------- properties: retransmission of I-frame fragments ---------------- *)

\* a datagram TX sent to RX that was neither handed to RX nor is in flight
Lost(p) == p \in txSent /\ p.to = "rx" /\ p \notin net /\ p \notin DOMAIN rxRecvd

\* the retransmissions TX sent of fragment k of frame fid
Retransmissions(fid, k) ==
    {p \in txSent : /\ IsMedia(p) /\ HasFlag(p.flags, VTX_FLAG_RETRANS)
                    /\ p.frame_id = fid /\ p.frag_index = k}

RetainedId == tx.media_pool.frames[tx.last_iframe].frame_id

\* C5: when the first transmission of a fragment of the retained I-frame is
\* the only datagram the network lost, and TX has not retransmitted the
\* fragment yet, TX still holds its slot unacknowledged, so that the
\* retransmission comes once retrans_timeout_ms has elapsed.
C5_LostFragmentIsRetransmitted ==
    \A p \in txSent :
        (/\ IsMedia(p) /\ p.frame_type = VTX_FRAME_I
         /\ ~HasFlag(p.flags, VTX_FLAG_RETRANS)
         /\ Lost(p) /\ drops = 1
         /\ tx.last_iframe /= 0 /\ RetainedId = p.frame_id
         /\ Retransmissions(p.frame_id, p.frag_index) = {})
        => p.frag_index \in PendingSlots(tx)

\* C7: a step in which TX handles an ACK marks slot k of the retained
\* I-frame acknowledged only if RX has been handed fragment k of that frame.
C7_AckedOnlyIfReceived ==
    [][\A p \in net :
          (TxPollRecv(p) /\ tx.last_iframe /= 0 /\ tx'.last_iframe = tx.last_iframe)
          => \A k \in PendingSlots(tx) \ PendingSlots(tx') :
                FragDeliveries(RetainedId, k) /= {}]_vars

\* slot k of the I-frame that t retains
SlotOf(t, k) == t.media_pool.frames[t.last_iframe].retran.frag[k + 1]

RetainedSlots(t) ==
    IF t.last_iframe = 0 THEN {}
    ELSE 0..(t.media_pool.frames[t.last_iframe].retran.num - 1)

\* C6: TX sends at most max_retrans retransmissions of a fragment, and in a
\* sweep a slot is abandoned (marked without an ACK) only when its own count
\* has reached max_retrans; a slot that is acknowledged, or whose own timeout
\* has not elapsed, keeps its retransmission count and its state whatever
\* happens to the other slots of the frame.
C6_RetransBoundedOthersUntouched ==
    /\ [](\A p \in txSent :
             IsMedia(p) =>
                Cardinality(Retransmissions(p.frame_id, p.frag_index)) <= tx.config.max_retrans)
    /\ [][TxPollTimeout =>
            \A k \in RetainedSlots(tx) :
               LET a == SlotOf(tx, k)
                   b == SlotOf(tx', k)
                   due == now - a.send_time_ms >= tx.config.retrans_timeout_ms
               IN /\ b.retrans_count <= tx.config.max_retrans
                  /\ (a.received \/ (a.retrans_count < tx.config.max_retrans /\ ~due)) => b = a
                  /\ (~a.received /\ b.received) =>
                        /\ a.retrans_count >= tx.config.max_retrans
                        /\ b.retrans_count = a.retrans_count
                  /\ b.retrans_count /= a.retrans_count =>
                        /\ b.retrans_count = a.retrans_count + 1
                        /\ ~b.received
                        /\ due]_vars

\* a fragment was abandoned after max_retrans retransmissions that RX never
\* got, while another slot of the frame stays acknowledged with count 0
C6_Witness ==
    /\ tx.last_iframe /= 0
    /\ \E k \in RetainedSlots(tx), j \in RetainedSlots(tx) :
          /\ j /= k
          /\ FragDeliveries(RetainedId, k) = {}
          /\ \A q \in rxSent : ~(q.frame_id = RetainedId /\ q.frag_index = k)
          /\ SlotOf(tx, k).received
          /\ SlotOf(tx, k).retrans_count = tx.config.max_retrans
          /\ Cardinality(Retransmissions(RetainedId, k)) = tx.config.max_retrans
          /\ SlotOf(tx, j).received
          /\ SlotOf(tx, j).retrans_count = 0

\* the frame_id of the I-frame submitted last (-1: none yet)
LatestIframe ==
    LET is == {n \in 1..Len(submitted) :
                  submitted[n].type = VTX_FRAME_I /\ submitted[n].ret = "OK"}
    IN IF is = {} THEN -1
       ELSE submitted[CHOOSE n \in is : \A m \in is : m <= n].frame_id

DataCallbacks(n) ==
    LET log == IF sentData[n].by = "tx" THEN rxCb ELSE txCb IN
    Cardinality({k \in 1..Len(log) :
                    log[k].fn = "data_fn" /\ log[k].data = sentData[n].data})

\* the transmissions of the n-th datagram that its sender made
DataTransmissions(n) ==
    {p \in (IF sentData[n].by = "tx" THEN txSent ELSE rxSent) :
        p.frame_type = VTX_DATA_USER /\ p.frame_id = sentData[n].frame_id}

\* C3: a datagram that send accepted reaches the data callback of the peer
\* at most once, and, for a datagram of TX, exactly once when RX was handed
\* one of its transmissions, however many of the transmissions arrive.
C3_DatagramDeliveredOnce ==
    \A n \in 1..Len(sentData) :
        sentData[n].ret = "OK" =>
            /\ DataCallbacks(n) <= 1
            /\ (/\ sentData[n].by = "tx"
                /\ \E p \in DataTransmissions(n) : p \in DOMAIN rxRecvd) => DataCallbacks(n) = 1

\* data_max_retrans of the configuration the sender of the n-th datagram was
\* created with
ConfiguredDataMaxRetrans(n) ==
    IF sentData[n].by = "tx" THEN tx.config.data_max_retrans ELSE rx.config.data_max_retrans

\* C4: the sender of a reliable datagram retransmits it at most
\* data_max_retrans times, data_max_retrans being the value of its
\* configuration.
C4_DataRetransBounded ==
    \A n \in 1..Len(sentData) :
        sentData[n].ret = "OK" =>
            Cardinality({p \in DataTransmissions(n) : HasFlag(p.flags, VTX_FLAG_RETRANS)})
                <= ConfiguredDataMaxRetrans(n)

(* ---------------- partial frames and the receive timeout ---------------- *)

RxConfigExpire ==
    [mtu |-> Mtu, frame_timeout_ms |-> FrameTimeoutMs, data_retrans_timeout_ms |-> 0,
     data_max_retrans |-> 0, heartbeat_interval_ms |-> 0]

InitExpire == InitConnected(TxConfigMedia, RxConfigExpire)

NextExpire ==
    \/ \E type \in {VTX_FRAME_I, VTX_FRAME_P} :
          TxSubmitMediaUpTo(type, MediaCap - 1, MaxSubmitExpire)
    \/ \E p \in net : TxPollRecv(p)
    \/ \E p \in net : RxPollRecv(p)
    \/ \E p \in net : Drop(p, MaxDropExpire)
    \/ TxPollTimeout
    \/ RxPollTimeout
    \/ (net = {} /\ Tick(1, MaxTimeExpire))

SpecExpire == InitExpire /\ [][NextExpire]_vars

(* ---------------- properties: the receive timeout ---------------- *)

\* the slots of the receive queue whose frame got its first fragment
\* frame_timeout_ms or longer before t
ExpiredSlots(r, t) ==
    {r.recv_queue[k] : k \in {j \in 1..Len(r.recv_queue) :
        t - r.media_pool.frames[r.recv_queue[j]].first_recv_ms >= r.config.frame_timeout_ms}}

QueuedSlots(r) == {r.recv_queue[k] : k \in 1..Len(r.recv_queue)}

IsFree(pool, i) ==
    /\ pool.frames[i].state = "FREE"
    /\ pool.frames[i].refcount = 0
    /\ \E k \in 1..Len(pool.free) : pool.free[k] = i

\* the fragment indices of media frame fid that RX was handed
FragsHanded(fid) ==
    {p.frag_index : p \in {q \in DOMAIN rxRecvd : IsMedia(q) /\ q.frame_id = fid}}

TxConfigConn ==
    [mtu |-> Mtu, retrans_timeout_ms |-> MediaRetransTimeoutMs,
     max_retrans |-> MediaMaxRetrans,
     data_retrans_timeout_ms |-> TxDataRetransTimeoutMs,
     data_max_retrans |-> TxDataMaxRetrans,
     connect_timeout_ms |-> ConnectTimeoutMs,
     connect_max_retrans |-> ConnectMaxRetrans,
     heartbeat_interval_ms |-> HeartbeatIntervalMs,
     heartbeat_max_miss |-> HeartbeatMaxMiss]

RxConfigConn ==
    [mtu |-> Mtu, frame_timeout_ms |-> 0, data_retrans_timeout_ms |-> 0,
     data_max_retrans |-> 0, heartbeat_interval_ms |-> HeartbeatIntervalMs]

\* both endpoints created, neither connected
Created(txc, rxc) ==
    [tx |-> vtx_tx_create(txc), rx |-> vtx_rx_create(rxc),
     txCb |-> << >>, rxCb |-> << >>, txSent |-> {}, rxSent |-> {}]

InitConn == InitFrom(Created(TxConfigConn, RxConfigConn))

\* the CONNECT requests RX sent so far
Connects == {p \in rxSent : p.frame_type = VTX_DATA_CONNECT}

\* the application of RX calls vtx_rx_connect: the CONNECT goes out, the wait
\* loop starts
RxConnect ==
    /\ rxCall.pc = "poll"
    /\ ~rx.connected
    /\ Cardinality(Connects) < MaxConnect
    /\ RxDone(RxConnectSend(RxRun(rx)), net)
    /\ rxCall' = [pc |-> "connect", start_ms |-> now]
    /\ UNCHANGED <<mem, calc, lib, tx, now, txCb, txSent, rxRecvd, submitted, sentData, dups, drops, swept,
                   threads, hist>>

RxConnectTurnDone(p, s) ==
    /\ RxDone(s, net \ {p})
    /\ rxCall' = IF s.rx.connected THEN [rxCall EXCEPT !.pc = "poll"] ELSE rxCall

\* vtx_rx_connect, one turn of the wait loop that gets the datagram p
RxConnectTurn(p) ==
    /\ rxCall.pc = "connect"
    /\ now - rxCall.start_ms < ConnectWaitMs
    /\ p \in net /\ p.to = "rx"
    /\ RxConnectTurnDone(p, RxConnectRecv(RxRun(rx), p, now))
    /\ rxRecvd' = Bump(rxRecvd, p)
    /\ UNCHANGED <<mem, calc, lib, tx, now, txCb, txSent, submitted, sentData, dups, drops, swept,
                   threads, hist>>

\* vtx_rx_connect, the wait loop ends after 5 s: VTX_ERR_TIMEOUT
RxConnectTimeout ==
    /\ rxCall.pc = "connect"
    /\ ~(now - rxCall.start_ms < ConnectWaitMs)
    /\ rxCall' = [rxCall EXCEPT !.pc = "poll"]
    /\ UNCHANGED <<mem, calc, lib, tx, rx, net, now, txCb, rxCb, txSent, rxSent, rxRecvd, submitted,
                   sentData, dups, drops, swept, threads, hist>>

\* vtx_rx_poll of an application that is not inside vtx_rx_connect
RxPollRecvLive(p) == rxCall.pc = "poll" /\ RxPollRecv(p)

RxPollTimeoutLive ==
    /\ rxCall.pc = "poll"
    /\ RxDone(RxPollTimeoutRun(RxRun(rx), now), net)
    /\ hist' = [hist EXCEPT !.polled = TRUE]
    /\ UNCHANGED <<mem, calc, lib, tx, now, txCb, txSent, rxRecvd, submitted, sentData, dups, drops, swept,
                   rxCall, threads>>

\* the application of RX calls vtx_rx_close
RxClose ==
    /\ rxCall.pc = "poll"
    /\ RxDone(vtx_rx_close(RxRun(rx)), net)
    /\ UNCHANGED <<mem, calc, lib, tx, now, txCb, txSent, rxRecvd, submitted, sentData, dups, drops, swept,
                   rxCall, threads, hist>>

TxAcceptDone(p, s) ==
    /\ TxDone(s, net \ {p})
    /\ hist' = [hist EXCEPT !.heard = IF s.tx.connected THEN now ELSE @]

\* the application of TX is in vtx_tx_accept: one turn of its loop gets p
TxAcceptTurn(p) ==
    /\ tx.running /\ ~tx.connected
    /\ p \in net /\ p.to = "tx"
    /\ TxAcceptDone(p, vtx_tx_accept(TxRun(tx), p))
    /\ UNCHANGED <<mem, calc, lib, rx, now, rxCb, rxSent, rxRecvd, submitted, sentData, dups, drops, swept,
                   rxCall, threads>>

\* the application of TX calls vtx_tx_close
TxClose ==
    /\ Cardinality({p \in txSent : p.frame_type = VTX_DATA_DISCONNECT}) < MaxClose
    /\ TxDone(vtx_tx_close(TxRun(tx)), net)
    /\ UNCHANGED <<mem, calc, lib, rx, now, rxCb, rxSent, rxRecvd, submitted, sentData, dups, drops, swept,
                   rxCall, threads, hist>>

\* time passes; both endpoints are live: TX ran its timeout branch in this
\* ms, and so did RX (the wait loop of vtx_rx_connect turns every ms)
TickLive(ms, max) ==
    /\ net = {}
    /\ swept
    /\ rxCall.pc = "poll" => hist.polled
    /\ now + ms <= max
    /\ now' = now + ms
    /\ swept' = FALSE
    /\ hist' = [hist EXCEPT !.polled = FALSE]
    /\ UNCHANGED <<mem, calc, lib, tx, rx, net, txCb, rxCb, txSent, rxSent, rxRecvd, submitted, sentData,
                   dups, drops, rxCall, threads>>

NextConn ==
    \/ RxConnect
    \/ \E p \in net : RxConnectTurn(p)
    \/ RxConnectTimeout
    \/ \E p \in net : RxPollRecvLive(p)
    \/ RxPollTimeoutLive
    \/ RxClose
    \/ \E p \in net : TxAcceptTurn(p)
    \/ \E p \in net : TxPollRecv(p)
    \/ TxPollTimeout
    \/ TxClose
    \/ \E p \in net : Drop(p, MaxDropConn)
    \/ TickLive(1, MaxTimeConn)

SpecConn == InitConn /\ [][NextConn]_vars

(* ---------------- sending on a connection that comes and goes ---------------- *)

NextSend ==
    \/ RxConnect
    \/ \E p \in net : RxConnectTurn(p)
    \/ \E p \in net : RxPollRecvLive(p)
    \/ RxPollTimeoutLive
    \/ RxClose
    \/ \E size \in 1..CtrlCap : RxSend(size)
    \/ \E p \in net : TxPollRecv(p)
    \/ TxPollTimeout
    \/ TxClose
    \/ \E size \in 1..CtrlCap : TxSend(size)
    \/ TickLive(1, MaxTimeSend)

SpecSend == InitConn /\ [][NextSend]_vars

(* ---------------- properties: the handshake ---------------- *)

\* TX sent CONNECTED and waits for its ACK: the state in which
\* vtx_process_retrans_queue retransmits CONNECTED
HandshakePending(t) == ~t.connected /\ t.connect_send_time_ms > 0

\* TX is neither connected nor in a handshake
Idle(t) == ~t.connected /\ t.connect_send_time_ms = 0

\* the time by which a handshake that started with the latest CONNECT is over
HandshakeDeadline ==
    rxCall.start_ms + ConnectMaxRetrans * ConnectTimeoutMs + RoundTripMs

\* RX observed Connected: connect_fn(true) was called
RxObservedConnected == \E k \in 1..Len(rxCb) : rxCb[k].fn = "connect_fn" /\ rxCb[k].type = 1

\* this step is vtx_recv of TX handling an ACK with frame_id 0
TxGetsAckZero ==
    \E p \in net : p.frame_type = VTX_DATA_ACK /\ p.frame_id = 0 /\ TxPollRecv(p)

\* the handshake that started from Idle is still the only thing that happened
\* to the connection: TX was never Connected and RX sent no DISCONNECT
FirstHandshake == hist.heard = 0 /\ {p \in rxSent : p.frame_type = VTX_DATA_DISCONNECT} = {}

C13_ConnectedOnlyByHandshakeAck ==
    [][/\ (~tx.connected /\ tx'.connected) => (HandshakePending(tx) /\ TxGetsAckZero)
       /\ (TxGetsAckZero /\ ~HandshakePending(tx)) => (tx'.connected = tx.connected)]_vars

\* the CONNECTED packets TX sent as retransmissions
ConnectedRetrans ==
    {p \in txSent : p.frame_type = VTX_DATA_CONNECTED /\ HasFlag(p.flags, VTX_FLAG_RETRANS)}

\* C14: as long as no ACK with frame_id 0 has made TX Connected, TX has
\* retransmitted CONNECTED at most connect_max_retrans times per CONNECT and
\* a pending reply is never older than connect_timeout_ms; each retransmission
\* is made with the reply pending, connect_timeout_ms or more after the last
\* transmission and with the budget not used up; the sweep that finds the
\* budget used up sends nothing and leaves TX Idle, where it retransmits no
\* CONNECTED.
C14_ConnectedRetransBounded ==
    /\ [](hist.heard = 0 =>
            /\ Cardinality(ConnectedRetrans) <= ConnectMaxRetrans * Cardinality(Connects)
            /\ tx.connect_retrans_count <= tx.config.connect_max_retrans
            /\ (HandshakePending(tx)
                  => now - tx.connect_send_time_ms <= tx.config.connect_timeout_ms))
    /\ [][/\ (ConnectedRetrans' /= ConnectedRetrans) =>
              (/\ HandshakePending(tx)
               /\ now - tx.connect_send_time_ms >= tx.config.connect_timeout_ms
               /\ tx.connect_retrans_count < tx.config.connect_max_retrans
               /\ tx'.connect_retrans_count = tx.connect_retrans_count + 1
               /\ tx'.connect_send_time_ms = now
               /\ Cardinality(ConnectedRetrans') = Cardinality(ConnectedRetrans) + 1)
          /\ (/\ TxPollTimeout
              /\ HandshakePending(tx)
              /\ tx.connect_retrans_count >= tx.config.connect_max_retrans)
             => (Idle(tx') /\ txSent' = txSent)]_vars

(* ---------------- properties: the heartbeat ---------------- *)

\* C15: whenever TX is Connected and heartbeat_interval_ms * heartbeat_max_miss
\* or more has passed since it entered Connected or got its last HEARTBEAT,
\* the timeout branch of vtx_tx_poll leaves TX not Connected.
C15_SilentPeerTimesOut ==
    [][(/\ TxPollTimeout
        /\ tx.connected
        /\ now - hist.heard
             >= tx.config.heartbeat_interval_ms * tx.config.heartbeat_max_miss)
       => ~tx'.connected]_vars

\* the HEARTBEAT packets RX sent
Heartbeats == {p \in rxSent : p.frame_type = VTX_DATA_HEARTBEAT}

\* C16: with no datagram lost and RX connected and polling every ms, RX has
\* sent a HEARTBEAT once it polled heartbeat_interval_ms after the handshake,
\* and no timeout branch of vtx_tx_poll takes TX out of Connected.
C16_LiveRxKeepsTxConnected ==
    /\ [](/\ drops = 0 /\ rx.connected /\ hist.polled
           /\ now - rxCall.start_ms >= rx.config.heartbeat_interval_ms
           => Heartbeats /= {})
    /\ [][(TxPollTimeout /\ drops = 0 /\ rx.connected /\ tx.connected)
            => tx'.connected]_vars

(* ---------------- properties: sending while not Connected ---------------- *)

\* C17: a call of vtx_tx_send or vtx_rx_send made while the endpoint is not
\* connected returns NOT_READY and changes nothing: the endpoint, its
\* reliable-data queue included, the datagrams it sent and the datagrams in
\* flight are as before.
C17_SendWhenNotConnected ==
    [][Len(sentData') = Len(sentData) + 1 =>
         /\ (sentData'[Len(sentData')].by = "tx" /\ ~tx.connected)
              => /\ sentData'[Len(sentData')].ret = "NOT_READY"
                 /\ tx' = tx /\ txSent' = txSent /\ net' = net
         /\ (sentData'[Len(sentData')].by = "rx" /\ ~rx.connected)
              => /\ sentData'[Len(sentData')].ret = "NOT_READY"
                 /\ rx' = rx /\ rxSent' = rxSent /\ net' = net]_vars

C17_Witness ==
    \E n \in 1..Len(sentData) :
        /\ sentData[n].by = "tx"
        /\ sentData[n].ret = "NOT_READY"
        /\ hist.heard > 0
        /\ sentData[n].at > hist.heard
        /\ ~tx.connected

(* ---------------- properties: teardown ---------------- *)

Disconnects(sent) == {p \in sent : p.frame_type = VTX_DATA_DISCONNECT}

AcksZero(sent) == {p \in sent : p.frame_type = VTX_DATA_ACK /\ p.frame_id = 0}

\* C18: the step in which a connected endpoint handles a DISCONNECT sends an
\* ACK with frame_id 0 and leaves the endpoint Idle: not connected and, at TX,
\* with no handshake reply pending; a DISCONNECT is sent only by a connected endpoint
\* in vtx_tx_close or vtx_rx_close, one a call, and never as a retransmission.
C18_DisconnectAckedThenIdle ==
    [][/\ \A p \in Disconnects(net) :
            /\ (tx.connected /\ TxPollRecv(p)) =>
                   (AcksZero(txSent') /= AcksZero(txSent) /\ Idle(tx'))
            /\ (rx.connected /\ RxPollRecvLive(p)) =>
                   (AcksZero(rxSent') /= AcksZero(rxSent) /\ ~rx'.connected)
       /\ Disconnects(txSent') /= Disconnects(txSent) =>
            /\ TxClose /\ tx.connected
            /\ Cardinality(Disconnects(txSent')) = Cardinality(Disconnects(txSent)) + 1
       /\ Disconnects(rxSent') /= Disconnects(rxSent) =>
            /\ RxClose /\ rx.connected
            /\ Cardinality(Disconnects(rxSent')) = Cardinality(Disconnects(rxSent)) + 1
       /\ \A p \in Disconnects(txSent' \cup rxSent') : ~HasFlag(p.flags, VTX_FLAG_RETRANS)]_vars

(* ---------------- the threads of TX and the sequence counter ---------------- *)

\* a thread of TX starts to emit a packet (vtx_tx_send_media for a fragment,
\* vtx_tx_send for a datagram, vtx_process_retrans_queue for a retransmission):
\* header.seq_num = atomic_fetch_add(&tx->seq_num, 1); no lock is held from
\* here to the sendmsg of vtx_send_packet
TxFetchSeq(th) ==
    /\ threads[th].pc = "idle"
    /\ tx.connected
    /\ Len(hist.order) + Cardinality({t \in Threads : threads[t].pc = "fetched"}) < MaxEmit
    /\ threads' = [threads EXCEPT ![th] = [pc |-> "fetched", seq |-> tx.seq_num]]
    /\ tx' = [tx EXCEPT !.seq_num = @ + 1]
    /\ UNCHANGED <<mem, calc, lib, rx, net, now, txCb, rxCb, txSent, rxSent, rxRecvd, submitted, sentData,
                   dups, drops, swept, rxCall, hist>>

\* vtx_send_packet of that thread: sendmsg puts the packet on the wire
TxSendmsg(th) ==
    /\ threads[th].pc = "fetched"
    /\ hist' = [hist EXCEPT !.order = Append(@, threads[th].seq)]
    /\ threads' = [threads EXCEPT ![th] = NoSeq]
    /\ UNCHANGED <<mem, calc, lib, tx, rx, net, now, txCb, rxCb, txSent, rxSent, rxRecvd, submitted, sentData,
                   dups, drops, swept, rxCall>>

NextSeq ==
    \/ \E th \in Threads : TxFetchSeq(th)
    \/ \E th \in Threads : TxSendmsg(th)

SpecSeq == InitMedia /\ [][NextSeq]_vars

\* C19: the packets of TX leave in the order of their sequence numbers: each
\* packet put on the wire carries a number greater than every one before it.
C19_SeqStrictlyIncreasing ==
    \A i, j \in 1..Len(hist.order) : i < j => hist.order[i] < hist.order[j]

(* ---------------- properties: frame ids ---------------- *)

\* C20: no datagram accepted by vtx_tx_send or vtx_rx_send and no media frame
\* accepted by vtx_tx_send_media is given frame_id 0.
C20_FrameIdZeroReserved ==
    /\ \A n \in 1..Len(sentData) : sentData[n].ret = "OK" => sentData[n].frame_id /= 0
    /\ \A n \in 1..Len(submitted) : submitted[n].ret = "OK" => submitted[n].frame_id /= 0

(* ---------------- datagrams that arrive altered ---------------- *)

\* what may arrive in place of the datagram p: p with one header field or one
\* payload byte changed on the way (the checksum is the old one), and p as a
\* sender outside this library may have built it, with a header the validation
\* is there to refuse or a frame type beyond the enumerated ones (the checksum
\* fits)
Reseal(p) == [p EXCEPT !.checksum = vtx_packet_calc_crc(p, p.payload)]

Garbled(p) ==
    {[p EXCEPT !.frame_id = (@ + 1) % 65536]}
    \cup (IF p.payload = <<>> THEN {} ELSE {[p EXCEPT !.payload[1] = (@ + 1) % 256]})

Malformed(p) ==
    {Reseal([p EXCEPT !.total_frags = 0]), Reseal([p EXCEPT !.frame_type = VTX_DATA_STOP + 1])}

Damage(p, q) ==
    /\ p \in net
    /\ hist.damaged < MaxDamage
    /\ net' = (net \ {p}) \cup {q}
    /\ hist' = [hist EXCEPT !.damaged = @ + 1]
    /\ UNCHANGED <<mem, calc, lib, tx, rx, now, txCb, rxCb, txSent, rxSent, rxRecvd, submitted, sentData,
                   dups, drops, swept, rxCall, threads>>

NextWire ==
    \/ RxConnect
    \/ \E p \in net : RxConnectTurn(p)
    \/ \E p \in net : RxPollRecvLive(p)
    \/ RxPollTimeoutLive
    \/ \E size \in 1..CtrlCap : RxSend(size)
    \/ \E p \in net : TxPollRecv(p)
    \/ TxPollTimeout
    \/ \E size \in 1..CtrlCap : TxSend(size)
    \/ \E p \in net : \E q \in Garbled(p) \cup Malformed(p) : Damage(p, q)
    \/ TickLive(1, MaxTimeWire)

SpecWire == InitConn /\ [][NextWire]_vars

(* ---------------- properties: the poll call ---------------- *)

\* the state and the datagrams an endpoint has after a call that ran one
\* receive attempt (s is what the attempt left) and then one sweep pass
TxReceivedAndSwept(s) ==
    /\ tx' = s.tx
    /\ txSent' = txSent \cup s.out

RxReceivedAndSwept(s) ==
    /\ rx' = s.rx
    /\ rxSent' = rxSent \cup s.out

\* C21: a call of vtx_tx_poll or vtx_rx_poll that wakes because the socket is
\* readable leaves the endpoint as one receive attempt followed by one
\* retransmission-sweep pass leave it.
C21_PollReceivesAndSweeps ==
    [][/\ \A p \in net : TxPollRecv(p) =>
              TxReceivedAndSwept(TxProcessRetransQueue(TxRecv(TxRun(tx), p, now), now))
       /\ \A p \in net : RxPollRecv(p) =>
              RxReceivedAndSwept(RxProcessRetransQueue(vtx_recv_packet(RxRun(rx), p, now).s, now))]_vars

(* ---------------- properties: datagrams that fail the checks ---------------- *)

\* the result codes from 0x8000 on are the error codes
IsError(code) == code >= 32768

\* the datagram fails the CRC verification or the header validation
FailsChecks(p) ==
    ~vtx_packet_verify(p) \/ ~vtx_packet_validate_header([f \in DOMAIN ZeroHeader |-> p[f]])

\* C22: a datagram that fails the CRC verification or the header validation
\* leaves the endpoint that reads it as it was (no state changed, no datagram
\* sent, no callback made), in vtx_tx_poll, in vtx_rx_poll and in the wait loop
\* of vtx_rx_connect, and the poll call that read it returns no error code.
C22_BadPacketDroppedSilently ==
    [][/\ \A p \in net : (FailsChecks(p) /\ TxPollRecv(p)) =>
              (/\ tx' = tx /\ txSent' = txSent /\ txCb' = txCb
               /\ ~IsError(TxRecvRet(p)))
       /\ \A p \in net : (FailsChecks(p) /\ RxPollRecvLive(p)) =>
              (/\ rx' = rx /\ rxSent' = rxSent /\ rxCb' = rxCb
               /\ ~IsError(vtx_recv_packet(RxRun(rx), p, now).ret))
       /\ \A p \in net : (FailsChecks(p) /\ RxConnectTurn(p)) =>
              (rx' = rx /\ rxSent' = rxSent /\ rxCb' = rxCb)]_vars

(* ---------------- properties: what reaches the type dispatch ---------------- *)

\* the datagram gets to the switch on frame_type of vtx_recv / vtx_recv_packet
TxReachesDispatch(p) == ~TxCrcFails(p)

RxReachesDispatch(p) ==
    vtx_packet_verify(p) /\ vtx_packet_validate_header([f \in DOMAIN ZeroHeader |-> p[f]])

EnumeratedTypes == (VTX_FRAME_I..VTX_FRAME_A) \cup (VTX_DATA_CONNECT..VTX_DATA_STOP)

WellFormed(p, mtu) ==
    /\ p.frag_index < p.total_frags
    /\ p.total_frags >= 1
    /\ p.payload_size <= mtu - VTX_PACKET_HEADER_SIZE
    /\ p.frame_type \in EnumeratedTypes

\* C23: every datagram that a poll call of TX or of RX takes to its type
\* dispatch has frag_index < total_frags, total_frags >= 1, payload_size <=
\* MTU - header size and an enumerated frame type.
C23_DispatchedPacketsWellFormed ==
    [][/\ \A p \in net : (TxPollRecv(p) /\ TxReachesDispatch(p)) => WellFormed(p, tx.config.mtu)
       /\ \A p \in net : (RxPollRecvLive(p) /\ RxReachesDispatch(p)) => WellFormed(p, rx.config.mtu)]_vars

(* ---------------- properties: reliable datagrams without loss ---------------- *)

\* the frame of the n-th datagram is in the reliable-data queue of its sender
InDataQueue(n, t, r) ==
    IF sentData[n].by = "tx"
    THEN \E k \in 1..Len(t.data_queue) :
            t.data_pool.frames[t.data_queue[k]].frame_id = sentData[n].frame_id
    ELSE \E k \in 1..Len(r.data_queue) :
            r.data_pool.frames[r.data_queue[k]].frame_id = sentData[n].frame_id

\* the retransmissions of the n-th datagram
DataRetrans(n) == {p \in DataTransmissions(n) : HasFlag(p.flags, VTX_FLAG_RETRANS)}

\* the timeout the sweep of the sender of the n-th datagram goes by
SweepTimeoutMs(n) ==
    IF sentData[n].by = "tx" THEN tx.config.data_retrans_timeout_ms
    ELSE RX_DATA_RETRANS_TIMEOUT_MS

Accepted == {n \in 1..Len(sentData) : sentData[n].ret = "OK"}

\* C24 (as stated): with no datagram lost, a reliable datagram is retransmitted
\* at most once.
C24_AtMostOneRetransmission ==
    drops = 0 => \A n \in Accepted : Cardinality(DataRetrans(n)) <= 1

\* C24 (amended): with no datagram lost, a reliable datagram has been
\* retransmitted at most once for every full retransmission timeout since it
\* was sent (so at most once when its ACK arrives before two timeouts have
\* passed); once its frame has left the queue of its sender the frame never
\* returns and the datagram is not retransmitted again; and when nothing is
\* in flight any more the frame has left the queue.
C24_RetransPerTimeoutOneRemoval ==
    /\ [](drops = 0 =>
            \A n \in Accepted :
                /\ Cardinality(DataRetrans(n)) <= (now - sentData[n].at) \div SweepTimeoutMs(n)
                /\ (net = {} => ~InDataQueue(n, tx, rx)))
    /\ [][\A n \in Accepted :
            ~InDataQueue(n, tx, rx) =>
                (/\ ~InDataQueue(n, tx', rx')
                 /\ Cardinality(DataRetrans(n)') = Cardinality(DataRetrans(n)))]_vars

\* a datagram whose ACK came after one timeout and before two: retransmitted
\* once, removed, nothing lost
C24_Witness ==
    /\ drops = 0 /\ net = {}
    /\ \E n \in Accepted :
          /\ Cardinality(DataRetrans(n)) = 1
          /\ ~InDataQueue(n, tx, rx)
          /\ now - sentData[n].at < 2 * SweepTimeoutMs(n)

(* ---------------- a frame pool and a frame queue shared by threads ---------------- *)

\* the threads that call into vtx_frame.c, and the frames a pool can come to hold
PoolThreads == {"a", "b"}
Slots == 1..MaxPoolFrames

\* a thread outside every call of vtx_frame.c
Outside == [pc |-> "idle", f |-> 0, qlock |-> FALSE]

InitPool ==
    /\ InitEndpoints(Created(TxConfigConn, RxConfigConn))
    /\ calc = NoCalc /\ lib = NoLib
    /\ mem = [pool |-> vtx_frame_pool_create(PoolInitialSize, 1),
              q |-> << >>,
              th |-> [t \in PoolThreads |-> Outside],
              held |-> [t \in PoolThreads |-> [f \in Slots |-> 0]],
              handed |-> [f \in Slots |-> 0],
              zeroed |-> [f \in Slots |-> 0],
              returned |-> [f \in Slots |-> 0],
              calls |-> 0]

\* queue->lock is taken by a thread inside vtx_frame_queue_remove
QueueLocked == \E t \in PoolThreads : mem.th[t].qlock

\* if (old_refcount == 1)
LastReference_Any(old) == old >= 1
LastReference(old) == old = 1

\* a first section that reads the head of the free list and leaves it there
PoolAcquireTake_Keep(t) ==
    /\ mem.th[t].pc = "idle" /\ mem.calls < MaxPoolCalls
    /\ mem' = IF mem.pool.free /= << >>
              THEN [mem EXCEPT !.th[t] = [pc |-> "acq_store", f |-> Head(mem.pool.free),
                                          qlock |-> FALSE],
                               !.calls = @ + 1]
              ELSE [mem EXCEPT !.th[t] = [pc |-> "acq_alloc", f |-> 0, qlock |-> FALSE],
                               !.calls = @ + 1]
    /\ UNCHANGED <<endpoints, calc, lib>>

\* vtx_frame_pool_acquire, the first section under pool->lock: the head of the
\* free list is unlinked, or the list is empty
PoolAcquireTake(t) ==
    /\ mem.th[t].pc = "idle" /\ mem.calls < MaxPoolCalls
    /\ mem' = IF mem.pool.free /= << >>
              THEN LET i == Head(mem.pool.free) IN
                   [mem EXCEPT !.pool.free = Tail(@), !.pool.free_count = @ - 1,
                               !.pool.frames[i].linked = FALSE,
                               !.th[t] = [pc |-> "acq_store", f |-> i, qlock |-> FALSE],
                               !.calls = @ + 1]
              ELSE [mem EXCEPT !.th[t] = [pc |-> "acq_alloc", f |-> 0, qlock |-> FALSE],
                               !.calls = @ + 1]
    /\ UNCHANGED <<endpoints, calc, lib>>

\* frame = vtx_frame_alloc(pool->data_size); NULL ends the call
PoolAcquireAlloc(t) ==
    /\ mem.th[t].pc = "acq_alloc"
    /\ mem' = IF Len(mem.pool.frames) < MaxPoolFrames
              THEN [mem EXCEPT !.pool.frames = Append(@, vtx_frame_alloc(mem.pool.cap)),
                               !.th[t] = [pc |-> "acq_count", f |-> Len(mem.pool.frames) + 1,
                                          qlock |-> FALSE]]
              ELSE [mem EXCEPT !.th[t] = Outside]
    /\ UNCHANGED <<endpoints, calc, lib>>

\* the second section under pool->lock: pool->total_count++
PoolAcquireCount(t) ==
    /\ mem.th[t].pc = "acq_count"
    /\ mem' = [mem EXCEPT !.pool.total_count = @ + 1, !.th[t].pc = "acq_store"]
    /\ UNCHANGED <<endpoints, calc, lib>>

\* atomic_store(&frame->refcount, 1), the state, and the return to the caller,
\* who now holds the reference
PoolAcquireStore(t) ==
    /\ mem.th[t].pc = "acq_store"
    /\ LET i == mem.th[t].f IN
       mem' = [mem EXCEPT !.pool.frames[i].refcount = 1, !.pool.frames[i].state = "FREE",
                          !.th[t] = Outside, !.held[t][i] = @ + 1, !.handed[i] = @ + 1]
    /\ UNCHANGED <<endpoints, calc, lib>>

\* vtx_frame_retain by a thread that holds a reference
FrameRetain(t, i) ==
    /\ mem.th[t].pc = "idle" /\ mem.calls < MaxPoolCalls
    /\ mem.held[t][i] > 0
    /\ mem' = [mem EXCEPT !.pool = vtx_frame_retain(@, i), !.held[t][i] = @ + 1,
                          !.calls = @ + 1]
    /\ UNCHANGED <<endpoints, calc, lib>>

\* atomic_fetch_sub in vtx_frame_release: m is the state with the reference of
\* the caller given up, lock tells whether queue->lock is held around the call
FetchSub(m, t, i, lock) ==
    LET old == m.pool.frames[i].refcount
        dec == [m EXCEPT !.pool.frames[i].refcount = @ - 1]
    IN IF old <= 0 THEN dec
       ELSE IF LastReference(old)
       THEN [dec EXCEPT !.th[t] = [pc |-> "rel_reset", f |-> i, qlock |-> lock],
                        !.zeroed[i] = @ + 1]
       ELSE dec

\* vtx_frame_release by a thread that holds a reference
FrameRelease(t, i) ==
    /\ mem.th[t].pc = "idle"
    /\ mem.held[t][i] > 0
    /\ mem' = FetchSub([mem EXCEPT !.held[t][i] = @ - 1], t, i, FALSE)
    /\ UNCHANGED <<endpoints, calc, lib>>

\* vtx_frame_pool_release: vtx_frame_reset, outside every lock
FrameReleaseReset(t) ==
    /\ mem.th[t].pc = "rel_reset"
    /\ mem' = [mem EXCEPT !.pool.frames[mem.th[t].f] = vtx_frame_reset(@),
                          !.th[t].pc = "rel_put"]
    /\ UNCHANGED <<endpoints, calc, lib>>

\* vtx_frame_pool_release: the section under pool->lock, and the return
FrameReleasePut(t) ==
    /\ mem.th[t].pc = "rel_put"
    /\ LET i == mem.th[t].f IN
       mem' = [mem EXCEPT !.pool.frames[i].linked = TRUE, !.pool.free = Append(@, i),
                          !.pool.free_count = @ + 1,
                          !.th[t] = Outside, !.returned[i] = @ + 1]
    /\ UNCHANGED <<endpoints, calc, lib>>

\* vtx_frame_queue_push by a thread that holds a reference to a frame that is
\* on no list
QueuePush(t, i) ==
    /\ mem.th[t].pc = "idle" /\ mem.calls < MaxPoolCalls
    /\ ~QueueLocked
    /\ mem.held[t][i] > 0 /\ ~mem.pool.frames[i].linked
    /\ LET pq == vtx_frame_queue_push([pool |-> mem.pool, q |-> mem.q], i) IN
       mem' = [mem EXCEPT !.pool = pq.pool, !.q = pq.q, !.calls = @ + 1]
    /\ UNCHANGED <<endpoints, calc, lib>>

\* vtx_frame_queue_pop: list_del_init of the head, which the caller now holds
QueuePop(t) ==
    /\ mem.th[t].pc = "idle"
    /\ ~QueueLocked
    /\ mem.q /= << >>
    /\ LET i == Head(mem.q) IN
       mem' = [mem EXCEPT !.q = Tail(@), !.pool.frames[i].linked = FALSE,
                          !.held[t][i] = @ + 1]
    /\ UNCHANGED <<endpoints, calc, lib>>

\* vtx_frame_queue_remove of a frame the caller found in the queue or holds:
\* under queue->lock, list_del_init and vtx_frame_release
QueueRemove(t, i) ==
    /\ mem.th[t].pc = "idle"
    /\ ~QueueLocked
    /\ (\E k \in 1..Len(mem.q) : mem.q[k] = i) \/ mem.held[t][i] > 0
    /\ mem' = IF mem.pool.frames[i].linked
              THEN FetchSub([mem EXCEPT !.pool.frames[i].linked = FALSE,
                                        !.q = RemoveFirst(@, i)], t, i, TRUE)
              ELSE mem
    /\ UNCHANGED <<endpoints, calc, lib>>

NextPool ==
    \/ \E t \in PoolThreads : PoolAcquireTake(t)
    \/ \E t \in PoolThreads : PoolAcquireAlloc(t)
    \/ \E t \in PoolThreads : PoolAcquireCount(t)
    \/ \E t \in PoolThreads : PoolAcquireStore(t)
    \/ \E t \in PoolThreads : \E i \in Slots : FrameRetain(t, i)
    \/ \E t \in PoolThreads : \E i \in Slots : FrameRelease(t, i)
    \/ \E t \in PoolThreads : FrameReleaseReset(t)
    \/ \E t \in PoolThreads : FrameReleasePut(t)
    \/ \E t \in PoolThreads : \E i \in Slots : QueuePush(t, i)
    \/ \E t \in PoolThreads : QueuePop(t)
    \/ \E t \in PoolThreads : \E i \in Slots : QueueRemove(t, i)

SpecPool == InitPool /\ [][NextPool]_vars

(* ---------------- properties: frames, references and the pool ---------------- *)

Frames == DOMAIN mem.pool.frames

InQueue(m, i) == \E k \in 1..Len(m.q) : m.q[k] = i
FreeOccurrences(m, i) == Cardinality({k \in 1..Len(m.pool.free) : m.pool.free[k] = i})
InFreeList(m, i) == FreeOccurrences(m, i) > 0

\* the references to frame i that are owned: those of the threads and that of the queue
HeldBy(m, i) == {t \in PoolThreads : m.held[t][i] > 0}
Owners(m, i) == m.held["a"][i] + m.held["b"][i] + (IF InQueue(m, i) THEN 1 ELSE 0)

\* the threads inside vtx_frame_pool_acquire with frame i, and those inside
\* vtx_frame_pool_release with it
Acquiring(m, i) == {t \in PoolThreads : m.th[t].pc \in {"acq_count", "acq_store"} /\ m.th[t].f = i}
Returning(m, i) == {t \in PoolThreads : m.th[t].pc \in {"rel_reset", "rel_put"} /\ m.th[t].f = i}

\* C25: for any interleaving of acquire, retain and release (by threads and by
\* the queue), a frame is reset and put back into its pool only by the release
\* that took its refcount from 1 to 0, once for each time it was handed out,
\* and never while a thread or the queue still owns a reference to it
C25_ReturnedOnceAtLastRelease ==
    /\ [](\A i \in Frames :
            /\ (InFreeList(mem, i) \/ Returning(mem, i) /= {}) => Owners(mem, i) = 0
            /\ FreeOccurrences(mem, i) + Cardinality(Returning(mem, i)) <= 1
            /\ mem.zeroed[i] = mem.returned[i] + Cardinality(Returning(mem, i))
            /\ mem.zeroed[i] <= mem.handed[i]
            /\ (Owners(mem, i) = 0 /\ Acquiring(mem, i) = {}) => mem.zeroed[i] = mem.handed[i])
    /\ [][\A i \in Frames :
            /\ mem.zeroed'[i] /= mem.zeroed[i]
                 => /\ mem.zeroed'[i] = mem.zeroed[i] + 1
                    /\ mem.pool.frames[i].refcount = 1 /\ mem.pool.frames'[i].refcount = 0
                    /\ Owners(mem', i) = 0
            /\ mem.returned'[i] /= mem.returned[i]
                 => /\ mem.returned'[i] = mem.returned[i] + 1
                    /\ InFreeList(mem', i) /\ ~InFreeList(mem, i)
                    /\ mem.pool.frames'[i] = [vtx_frame_reset(mem.pool.frames[i]) EXCEPT !.linked = TRUE]]_vars

\* a frame that was retained, released by its holders, put back, handed out
\* again and put back again
C25_Witness ==
    \E i \in Frames : mem.handed[i] = 2 /\ mem.returned[i] = 2 /\ InFreeList(mem, i)

Refcount(m, i) == m.pool.frames[i].refcount

PoolStats(m) == [total_frames |-> m.pool.total_count, free_frames |-> m.pool.free_count]

\* the threads that allocated a frame and have not yet counted it
Uncounted(m) == {t \in PoolThreads : m.th[t].pc = "acq_count"}

\* every acquired frame goes to one caller; no frame is in the free list twice
\* or while it is owned or being handed out
HandedToOneCaller ==
    /\ [](\A i \in Frames :
            /\ FreeOccurrences(mem, i) <= 1
            /\ InFreeList(mem, i) => Owners(mem, i) = 0 /\ Acquiring(mem, i) = {}
            /\ Cardinality(Acquiring(mem, i)) <= 1
            /\ Acquiring(mem, i) /= {} => Owners(mem, i) = 0)
    /\ [][\A i \in Frames :
            mem.handed'[i] /= mem.handed[i]
                => /\ Owners(mem, i) = 0 /\ Owners(mem', i) = 1
                   /\ Cardinality(HeldBy(mem', i)) = 1 /\ ~InFreeList(mem', i)]_vars

\* C27 as stated: under concurrent acquire and release every acquired frame goes
\* to one caller, no frame is in the free list twice or while in use, and
\* free_count and total_count are the numbers of free and of existing frames
C27_PoolCountsExact ==
    /\ HandedToOneCaller
    /\ [](/\ PoolStats(mem).free_frames = Len(mem.pool.free)
          /\ PoolStats(mem).total_frames = Cardinality(Frames))

\* C27, amended: the same, with total_count the number of existing frames less
\* those that a thread inside acquire has allocated and not yet counted, so
\* that it is the number of existing frames whenever no acquire is in between
C27_PoolCountsOnceCounted ==
    /\ HandedToOneCaller
    /\ [](/\ PoolStats(mem).free_frames = Len(mem.pool.free)
          /\ PoolStats(mem).total_frames = Cardinality(Frames) - Cardinality(Uncounted(mem))
          /\ (\A t \in PoolThreads : mem.th[t].pc \notin {"acq_alloc", "acq_count"})
                => PoolStats(mem).total_frames = Cardinality(Frames))

\* both threads are inside acquire, one with a frame it took from the free list
\* and one with a frame it allocated and has not counted yet
C27_Witness ==
    /\ mem.th["a"].pc = "acq_store" /\ mem.th["b"].pc = "acq_count"
    /\ mem.th["a"].f /= mem.th["b"].f
    /\ mem.handed[mem.th["a"].f] = 1
    /\ PoolStats(mem).total_frames = Cardinality(Frames) - 1

(* ---------------- calls of the library by one application thread ---------------- *)

\* the byte order of the host
HostOrders == {"little", "big"}

Reversed(m) == [k \in 1..Len(m) |-> m[Len(m) + 1 - k]]

\* the n bytes of x, most significant first, and the number they spell
Digits(x, n) == [k \in 1..n |-> (x \div (256 ^ (n - k))) % 256]
RECURSIVE Spelled(_)
Spelled(d) == IF d = << >> THEN 0 ELSE 256 * Spelled(SubSeq(d, 1, Len(d) - 1)) + d[Len(d)]

\* an integer of n bytes as it lies in the memory of the host, and the integer
\* that the host reads from such bytes
Store(x, n, order) == IF order = "big" THEN Digits(x, n) ELSE Reversed(Digits(x, n))
Load(m, order) == Spelled(IF order = "big" THEN m ELSE Reversed(m))

\* htonl, htons, ntohl, ntohs on an integer in memory: the bytes are swapped on
\* a little-endian host and left alone on a big-endian one
Swap(m, order) == IF order = "little" THEN Reversed(m) ELSE m

\* vtx_packet_header_t (packed) in memory, and its fields read back
StructImage(h, order) ==
    Store(h.seq_num, 4, order) \o Store(h.frame_id, 2, order) \o <<h.frame_type, h.flags>>
        \o Store(h.frag_index, 2, order) \o Store(h.total_frags, 2, order)
        \o Store(h.payload_size, 2, order) \o Store(h.checksum, 2, order)

StructFields(m, order) ==
    [seq_num |-> Load(SubSeq(m, 1, 4), order), frame_id |-> Load(SubSeq(m, 5, 6), order),
     frame_type |-> m[7], flags |-> m[8],
     frag_index |-> Load(SubSeq(m, 9, 10), order), total_frags |-> Load(SubSeq(m, 11, 12), order),
     payload_size |-> Load(SubSeq(m, 13, 14), order), checksum |-> Load(SubSeq(m, 15, 16), order)]

\* the conversion of every multi-byte field in place
ConvertFields(m, order) ==
    Swap(SubSeq(m, 1, 4), order) \o Swap(SubSeq(m, 5, 6), order) \o SubSeq(m, 7, 8)
        \o Swap(SubSeq(m, 9, 10), order) \o Swap(SubSeq(m, 11, 12), order)
        \o Swap(SubSeq(m, 13, 14), order) \o Swap(SubSeq(m, 15, 16), order)

vtx_packet_serialize_header(m, order) == ConvertFields(m, order)

\* a deserialization that copies the fields as they arrived
vtx_packet_deserialize_header_AsIs(m, order) == m

vtx_packet_deserialize_header(m, order) == ConvertFields(m, order)

\* the header bytes that vtx_send_packet of TX and of RX put together before the
\* CRC is written: TX turns total_frags 0 into 1, both leave the checksum 0
SendImage(side, h, order) ==
    ConvertFields(StructImage([h EXCEPT !.total_frags = IF side = "tx" /\ @ = 0 THEN 1 ELSE @,
                                        !.checksum = 0], order), order)

\* the payload sizes of the fragments in the loop of vtx_tx_send_media
MediaFragSizes(data_size, mtu) ==
    LET payload_capacity == mtu - VTX_PACKET_HEADER_SIZE
        total_frags == (data_size + payload_capacity - 1) \div payload_capacity
    IN [k \in 1..total_frags |->
          LET payload_size == data_size - (k - 1) * payload_capacity
          IN IF payload_size > payload_capacity THEN payload_capacity ELSE payload_size]

\* the arguments of the calls
FrameSizes == {1, 1384, 1386, 4152, 4200}
Mtus == {100, 1400, 1500}
MemLimits == {0, 4096}
Headers ==
    [seq_num : {16909060}, frame_id : {258, 65535}, frame_type : {VTX_FRAME_I, VTX_DATA_USER},
     flags : {VTX_FLAG_LAST_FRAG}, frag_index : {3}, total_frags : {0, 4},
     payload_size : {1384}, checksum : {4660}]

\* vtx_mem_init and vtx_mem_fini: the build that tracks allocations keeps a
\* flag of its own, the release build keeps nothing
vtx_mem_init(l, limit_bytes) ==
    IF ~l.debug THEN [ret |-> VTX_OK, l |-> l]
    ELSE IF l.mem_initialized = 1 THEN [ret |-> VTX_ERR_ALREADY_INIT, l |-> l]
    ELSE [ret |-> VTX_OK, l |-> [l EXCEPT !.mem_limit_bytes = limit_bytes, !.mem_initialized = 1]]

vtx_mem_fini(l) ==
    IF ~l.debug \/ l.mem_initialized = 0 THEN l ELSE [l EXCEPT !.mem_initialized = 0]

\* what a call leaves on record: its name, its result, and whether the last
\* of vtx_init and vtx_fini was a vtx_init that returned VTX_OK
Called(l, name, ret, ok) == [l EXCEPT !.call = name, !.ret = ret, !.ok = ok]

InitApi ==
    /\ InitEndpoints(Created(TxConfigConn, RxConfigConn))
    /\ mem = NoMem
    /\ \E o \in HostOrders, S \in FrameSizes, M \in Mtus, h \in Headers :
          calc = [order |-> o, frame_size |-> S, mtu |-> M, h |-> h,
                  frags |-> << >>, sent |-> << >>, image |-> << >>, back |-> << >>,
                  wire |-> << >>, heard |-> << >>]
    /\ \E d \in BOOLEAN :
          lib = [initialized |-> 0, mem_limit |-> 0, debug |-> d, mem_initialized |-> 0,
                 mem_limit_bytes |-> 0, call |-> "none", ret |-> 0, ok |-> FALSE]

\* vtx_init(config) with config->mem_limit_bytes = limit
vtx_init_Again(limit) ==
    /\ LET r == vtx_mem_init(lib, limit) IN
       lib' = IF r.ret /= VTX_OK THEN Called(lib, "vtx_init", r.ret, lib.ok)
              ELSE Called([r.l EXCEPT !.mem_limit = limit, !.initialized = 1],
                          "vtx_init", VTX_OK, TRUE)
    /\ UNCHANGED <<endpoints, mem, calc>>

vtx_init(limit) ==
    /\ LET r == vtx_mem_init(lib, limit) IN
       lib' = IF lib.initialized /= 0 THEN Called(lib, "vtx_init", VTX_ERR_ALREADY_INIT, lib.ok)
              ELSE IF r.ret /= VTX_OK THEN Called(lib, "vtx_init", r.ret, lib.ok)
              ELSE Called([r.l EXCEPT !.mem_limit = limit, !.initialized = 1],
                          "vtx_init", VTX_OK, TRUE)
    /\ UNCHANGED <<endpoints, mem, calc>>

vtx_fini ==
    /\ lib' = IF lib.initialized = 0 THEN Called(lib, "vtx_fini", 0, FALSE)
              ELSE Called([vtx_mem_fini(lib) EXCEPT !.initialized = 0], "vtx_fini", 0, FALSE)
    /\ UNCHANGED <<endpoints, mem, calc>>

vtx_is_initialized ==
    /\ lib' = Called(lib, "vtx_is_initialized", lib.initialized, lib.ok)
    /\ UNCHANGED <<endpoints, mem, calc>>

\* the application calls vtx_mem_init or vtx_mem_fini itself
AppMemInit(limit) ==
    /\ LET r == vtx_mem_init(lib, limit) IN lib' = Called(r.l, "vtx_mem_init", r.ret, lib.ok)
    /\ UNCHANGED <<endpoints, mem, calc>>

AppMemFini ==
    /\ lib' = Called(vtx_mem_fini(lib), "vtx_mem_fini", 0, lib.ok)
    /\ UNCHANGED <<endpoints, mem, calc>>

\* vtx_packet_calc_frags, then vtx_packet_calc_frag_offset and
\* vtx_packet_calc_frag_size for every index; and the loop of vtx_tx_send_media
\* on a frame of the same size
CalcFragments ==
    /\ calc.frags = << >>
    /\ calc' = [calc EXCEPT
                  !.frags = [k \in 1..vtx_packet_calc_frags(calc.frame_size, calc.mtu) |->
                               [offset |-> vtx_packet_calc_frag_offset(k - 1, calc.mtu),
                                size |-> vtx_packet_calc_frag_size(calc.frame_size, k - 1, calc.mtu)]],
                  !.sent = MediaFragSizes(calc.frame_size, calc.mtu)]
    /\ UNCHANGED <<endpoints, mem, lib>>

\* vtx_packet_serialize_header on the header; vtx_send_packet of TX and of RX on it
SerializeHeader ==
    /\ calc.image = << >>
    /\ calc' = [calc EXCEPT
                  !.image = vtx_packet_serialize_header(StructImage(calc.h, calc.order), calc.order),
                  !.wire = [side \in {"tx", "rx"} |-> SendImage(side, calc.h, calc.order)]]
    /\ UNCHANGED <<endpoints, mem, lib>>

\* memcpy(&header, buf, sizeof(header)) and vtx_packet_deserialize_header
DeserializeHeader ==
    /\ calc.image /= << >> /\ calc.back = << >>
    /\ calc' = [calc EXCEPT
                  !.back = StructFields(vtx_packet_deserialize_header(calc.image, calc.order),
                                        calc.order),
                  !.heard = [side \in {"tx", "rx"} |->
                               StructFields(vtx_packet_deserialize_header(calc.wire[side], calc.order),
                                            calc.order)]]
    /\ UNCHANGED <<endpoints, mem, lib>>

NextApi ==
    \/ \E limit \in MemLimits : vtx_init(limit)
    \/ vtx_fini
    \/ vtx_is_initialized
    \/ \E limit \in MemLimits : AppMemInit(limit)
    \/ AppMemFini
    \/ CalcFragments
    \/ SerializeHeader
    \/ DeserializeHeader

SpecApi == InitApi /\ [][NextApi]_vars

(* ---------------- properties: fragment sizes ---------------- *)

Ceiling(a, b) == IF a % b = 0 THEN a \div b ELSE a \div b + 1

\* the fragments computed by the helpers and those of vtx_tx_send_media are
\* Ceiling(S / (M - header)) in number, each of M - header bytes but the last,
\* which has the rest; they lie end to end
SplitBy(header) ==
    LET S == calc.frame_size
        per == calc.mtu - header
        n == Ceiling(S, per)
    IN calc.frags /= << >> =>
         /\ Len(calc.frags) = n /\ Len(calc.sent) = n
         /\ \A k \in 1..n :
              /\ calc.frags[k].size = (IF k < n THEN per ELSE S - (n - 1) * per)
              /\ calc.sent[k] = calc.frags[k].size
              /\ calc.frags[k].offset = (k - 1) * per

SizesOf4200At1400 == [k \in 1..Len(calc.frags) |-> calc.frags[k].size]

ValidHeader(h) == vtx_packet_validate_header(h)

LibState(l) == [f \in {"initialized", "mem_limit", "debug", "mem_initialized", "mem_limit_bytes"} |-> l[f]]

\* C30: from a vtx_init that returned VTX_OK to the next vtx_fini the library
\* is initialized, vtx_is_initialized returns 1 and every vtx_init returns
\* VTX_ERR_ALREADY_INIT and changes nothing; from a vtx_fini to the next
\* successful vtx_init the library is not initialized and vtx_is_initialized
\* returns 0
C30_InitializedFromInitToFini ==
    /\ [](/\ lib.initialized = (IF lib.ok THEN 1 ELSE 0)
          /\ lib.call = "vtx_is_initialized" => lib.ret = (IF lib.ok THEN 1 ELSE 0)
          /\ lib.call = "vtx_fini" => lib.initialized = 0)
    /\ [][\A limit \in MemLimits :
            (vtx_init(limit) /\ lib.ok)
                => /\ lib.ret' = VTX_ERR_ALREADY_INIT
                   /\ LibState(lib') = LibState(lib)
                   /\ lib.ok']_vars

\* a further vtx_init was turned away and left the limit of the first in place
C30_Witness ==
    /\ lib.call = "vtx_init" /\ lib.ret = VTX_ERR_ALREADY_INIT
    /\ lib.ok /\ lib.initialized = 1 /\ lib.mem_limit = 4096
    /\ ~lib.debug

(* ---------------- copying into and out of a frame (vtx_frame.c) ---------------- *)

\* a copyto that stores the bytes and leaves data_size alone
vtx_frame_copyto_KeepSize(f, offset, src, size) ==
    IF size = 0 \/ offset >= Len(f.data) \/ size > Len(f.data) - offset
    THEN [ret |-> 0, f |-> f]
    ELSE [ret |-> size, f |-> [f EXCEPT !.data = BufWrite(@, offset, src, size)]]

\* data_capacity is Len(f.data); frame, src and dst are not NULL
vtx_frame_copyto(f, offset, src, size) ==
    IF size = 0 THEN [ret |-> 0, f |-> f]
    ELSE IF offset >= Len(f.data) THEN [ret |-> 0, f |-> f]
    ELSE IF size > Len(f.data) - offset THEN [ret |-> 0, f |-> f]
    ELSE [ret |-> size,
          f |-> [f EXCEPT !.data = BufWrite(@, offset, src, size),
                          !.data_size = IF offset + size > @ THEN offset + size ELSE @]]

vtx_frame_copyfrom(f, offset, dst, size) ==
    IF size = 0 THEN [ret |-> 0, dst |-> dst]
    ELSE IF offset >= f.data_size THEN [ret |-> 0, dst |-> dst]
    ELSE IF size > f.data_size - offset THEN [ret |-> 0, dst |-> dst]
    ELSE [ret |-> size, dst |-> BufWrite(dst, 0, BufSlice(f.data, offset, size), size)]

\* the bytes an application writes, what a buffer from vtx_malloc may hold
\* before anything is written to it, and the fill of the application's dst;
\* calc.shadow keeps for every position the byte a copyto last put there, -1 for none
AppBytes == {1, 2}
StaleBytes == {0, 7}
DstFill == [k \in 1..(CopyCap + 1) |-> 9]

\* the arguments: offsets and sizes up to one past the capacity
CopyArgs == 0..(CopyCap + 1)

\* a frame fresh from its pool, its buffer holding what vtx_malloc left there
InitCopy ==
    /\ InitEndpoints(Created(TxConfigConn, RxConfigConn))
    /\ mem = NoMem /\ lib = NoLib
    /\ \E d \in [1..CopyCap -> StaleBytes] :
          calc = [frame |-> [data |-> d, data_size |-> 0],
                  shadow |-> [k \in 1..CopyCap |-> -1],
                  dst |-> DstFill,
                  call |-> "none", offset |-> 0, size |-> 0, ret |-> 0,
                  before |-> [data |-> d, data_size |-> 0]]

\* the application calls vtx_frame_copyto(frame, offset, src, size)
FrameCopyTo(offset, src) ==
    /\ LET r == vtx_frame_copyto(calc.frame, offset, src, Len(src)) IN
       calc' = [calc EXCEPT !.frame = r.f,
                            !.shadow = [k \in 1..CopyCap |->
                                          IF r.ret /= 0 /\ k > offset /\ k <= offset + Len(src)
                                          THEN src[k - offset] ELSE @[k]],
                            !.dst = DstFill,
                            !.call = "copyto", !.offset = offset, !.size = Len(src),
                            !.ret = r.ret, !.before = calc.frame]
    /\ UNCHANGED <<endpoints, mem, lib>>

\* the application calls vtx_frame_copyfrom(frame, offset, dst, size) on a
\* buffer it has filled with DstFill
FrameCopyFrom(offset, size) ==
    /\ LET r == vtx_frame_copyfrom(calc.frame, offset, DstFill, size) IN
       calc' = [calc EXCEPT !.dst = r.dst,
                            !.call = "copyfrom", !.offset = offset, !.size = size,
                            !.ret = r.ret, !.before = calc.frame]
    /\ UNCHANGED <<endpoints, mem, lib>>

NextCopy ==
    \/ \E offset \in CopyArgs : \E size \in CopyArgs : \E src \in [1..size -> AppBytes] :
          FrameCopyTo(offset, src)
    \/ \E offset \in CopyArgs : \E size \in CopyArgs : FrameCopyFrom(offset, size)

SpecCopy == InitCopy /\ [][NextCopy]_vars

(* ---------------- properties: copyto and copyfrom ---------------- *)

Fits == calc.offset + calc.size <= CopyCap
InData == calc.offset + calc.size <= calc.before.data_size
Max(a, b) == IF a > b THEN a ELSE b

\* a copyto that does not fit and a copyfrom beyond data_size return 0 and
\* change nothing; no copyfrom changes the frame; a copyfrom within data_size
\* returns size and the bytes last written to the range
CopyRest ==
    /\ (calc.call = "copyto" /\ ~Fits) => (calc.ret = 0 /\ calc.frame = calc.before)
    /\ calc.call = "copyfrom" => calc.frame = calc.before
    /\ (calc.call = "copyfrom" /\ ~InData) => (calc.ret = 0 /\ calc.dst = DstFill)
    /\ (calc.call = "copyfrom" /\ InData) =>
          /\ calc.ret = calc.size
          /\ \A k \in 1..(CopyCap + 1) :
                IF k <= calc.size
                THEN calc.shadow[calc.offset + k] /= -1
                        => calc.dst[k] = calc.shadow[calc.offset + k]
                ELSE calc.dst[k] = DstFill[k]
    /\ \A k \in 1..CopyCap : calc.shadow[k] /= -1 => calc.frame.data[k] = calc.shadow[k]

\* C31 as stated: every copyto that fits within the capacity returns size and
\* sets data_size to max(old data_size, offset + size); a copyfrom within
\* data_size returns the bytes last written there; a copyto beyond the capacity
\* and a copyfrom beyond data_size return 0 and change nothing
C31_CopyWithinBounds ==
    /\ (calc.call = "copyto" /\ Fits) =>
          /\ calc.ret = calc.size
          /\ calc.frame.data_size = Max(calc.before.data_size, calc.offset + calc.size)
    /\ CopyRest

\* C31, amended: the same for every copyto of at least one byte; a copyto of
\* no bytes returns 0 and changes nothing, wherever its offset lies
C31_CopyOfBytesWithinBounds ==
    /\ (calc.call = "copyto" /\ Fits /\ calc.size >= 1) =>
          /\ calc.ret = calc.size
          /\ calc.frame.data_size = Max(calc.before.data_size, calc.offset + calc.size)
    /\ (calc.call = "copyto" /\ calc.size = 0) => (calc.ret = 0 /\ calc.frame = calc.before)
    /\ CopyRest

\* bytes were written over bytes written before, and a copyfrom across the
\* whole of data_size has returned them
C31_Witness ==
    /\ calc.call = "copyfrom" /\ calc.ret = CopyCap /\ calc.offset = 0
    /\ calc.frame.data_size = CopyCap
    /\ \A k \in 1..CopyCap : calc.shadow[k] /= -1 /\ calc.dst[k] = calc.shadow[k]
    /\ calc.shadow[1] /= calc.shadow[2]

(* ---------------- properties: what an ACK removes ---------------- *)

\* the peer of the sender of the n-th datagram has received the datagram: RX
\* was handed one of its transmissions, or the data callback of TX was given it
PeerReceived(n) ==
    IF sentData[n].by = "tx"
    THEN \E p \in DataTransmissions(n) : p \in DOMAIN rxRecvd
    ELSE DataCallbacks(n) >= 1

\* the step is the reception of the ACK p by the sender of the n-th datagram
AckTurn(n, p) ==
    /\ p.frame_type = VTX_DATA_ACK
    /\ IF sentData[n].by = "tx" THEN TxPollRecv(p) ELSE RxPollRecvLive(p)

\* C32: a reliable datagram leaves the reliable-data queue of its sender on
\* the reception of an ACK only if the peer has received the datagram; the
\* ACKs the peer sends for other packets leave it in the queue.
C32_AckedOnlyIfReceived ==
    [][\A n \in Accepted : \A p \in net :
          (AckTurn(n, p) /\ InDataQueue(n, tx, rx) /\ ~InDataQueue(n, tx', rx'))
              => PeerReceived(n)]_vars

(* ---------------- properties: reference counts ---------------- *)

\* the frame pools of the two endpoints
EndpointPools == {tx.media_pool, tx.data_pool, rx.media_pool, rx.data_pool}

\* C33: no frame's reference count drops below zero: every release is made by
\* a holder of a reference, also when an ACK removes a reliable datagram from
\* the queue of TX or of RX.
C33_RefcountNeverNegative ==
    \A pool \in EndpointPools : \A i \in DOMAIN pool.frames : pool.frames[i].refcount >= 0

(* ---------------- I-frames whose ACKs are late ---------------- *)

\* I-frames submitted and the clock of this specification
MaxSubmitLate == 1
MaxTimeLate == 2

\* the network loses and duplicates nothing, and a datagram may stay in flight
\* while time passes
NextLate ==
    \/ \E size \in {1, MediaCap - 1} : TxSubmitMediaUpTo(VTX_FRAME_I, size, MaxSubmitLate)
    \/ \E p \in net : TxPollRecv(p)
    \/ \E p \in net : RxPollRecv(p)
    \/ TxPollTimeout
    \/ RxPollTimeout
    \/ Tick(1, MaxTimeLate)

SpecLate == InitMedia /\ [][NextLate]_vars

(* ---------------- properties: one callback per media frame ---------------- *)

\* C34: each media frame TX submits is passed to the frame callback of RX at
\* most once, also when TX retransmits fragments of it after RX has completed
\* the frame.
C34_FrameCallbackAtMostOnce ==
    \A n \in 1..Len(submitted) : Cardinality(FrameCallbacks(submitted[n].frame_id)) <= 1

(* ---------------- the threads of TX and their locks ---------------- *)

\* the poll thread (vtx_tx_poll), a thread of the application that calls
\* vtx_tx_send and one that calls vtx_tx_alloc_media_frame and vtx_tx_send_media
Callers == {"poll", "send", "media"}

\* the spinlocks of a TX endpoint: of its queue, of its retained I-frame, of its
\* two frame pools, of its tracker pool, of its statistics
LockNames == {"data_queue", "iframe_lock", "data_pool", "media_pool", "frag_pool", "stats_lock"}

\* calls of vtx_tx_poll, of vtx_tx_send, of vtx_tx_send_media; fragments of a
\* media frame
MaxPollCalls == 1
MaxSendCalls == 1
MaxMediaCalls == 2
MaxThreadFrags == 2

\* a step of a thread: lock and unlock name a lock in l; every other step is a
\* statement between two lock operations, l a pool and f a frame, a tracker,
\* an index or a count
Op(name, l, f) == [op |-> name, l |-> l, f |-> f]
Lock(l) == Op("lock", l, 0)
Unlock(l) == Op("unlock", l, 0)

\* the steps of the functions, in program order; a step that depends on what
\* an earlier one found puts its continuation in front of the rest when it runs
vtx_send_packet_steps(sendmsg) == <<Op(sendmsg, "", 0), Lock("stats_lock"), Unlock("stats_lock")>>

vtx_frame_pool_acquire_steps(pool) ==
    <<Lock(pool), Op("list_first_entry", pool, 0), Unlock(pool),
      Op("vtx_frame_alloc", pool, 0), Op("atomic_store", pool, 0), Lock(pool), Unlock(pool)>>

\* a release that takes the lock of the queue inside the lock of the pool
vtx_frame_pool_release_steps_Upward(pool, f) ==
    <<Op("vtx_frame_reset", pool, f), Lock(pool), Lock("data_queue"),
      Op("list_add_tail", pool, f), Unlock("data_queue"), Unlock(pool)>>

vtx_frame_pool_release_steps(pool, f) ==
    <<Op("vtx_frame_reset", pool, f), Lock(pool), Op("list_add_tail", pool, f), Unlock(pool)>>

vtx_frame_release_steps(pool, f) == <<Op("atomic_fetch_sub", pool, f)>>

vtx_frag_pool_acquire_steps(num_frags) ==
    <<Lock("frag_pool"), Op("slab_first_entry", "", 0), Unlock("frag_pool"),
      Op("slab_init", "", num_frags)>>

vtx_frag_pool_release_steps(header) ==
    <<Op("slab_memset", "", header), Lock("frag_pool"), Op("slab_add_tail", "", header),
      Unlock("frag_pool")>>

vtx_frame_queue_push_steps(f) ==
    <<Lock("data_queue"), Op("queue_add_tail", "data_pool", f), Unlock("data_queue")>>

vtx_frame_queue_find_steps(frame_id) ==
    <<Lock("data_queue"), Op("queue_find", "data_pool", frame_id), Unlock("data_queue")>>

vtx_frame_queue_remove_steps(f) ==
    <<Lock("data_queue"), Op("queue_del", "data_pool", f), Unlock("data_queue")>>

\* vtx_process_retrans_queue: the pass over the data queue, then the pass over
\* the fragments of the retained I-frame
vtx_process_retrans_queue_steps ==
    <<Lock("data_queue"), Op("data_visit", "", 1), Unlock("data_queue"),
      Lock("iframe_lock"), Op("iframe_begin", "", 0), Unlock("iframe_lock")>>

\* the retransmission of the sweep, between its unlock and its lock of `lock`
SweepSend_steps(lock, sendmsg) ==
    <<Unlock(lock)>> \o vtx_send_packet_steps(sendmsg)
       \o <<Lock("stats_lock"), Unlock("stats_lock"), Lock(lock)>>

\* vtx_recv, case VTX_DATA_ACK, of a connected TX
TxRecvAck_steps(frame_id, frag_index) ==
    vtx_frame_queue_find_steps(frame_id) \o <<Op("ack_dispatch", "", frag_index)>>

\* vtx_tx_send
vtx_tx_send_steps == vtx_frame_pool_acquire_steps("data_pool") \o <<Op("tx_send", "", 0)>>

\* vtx_tx_alloc_media_frame, then vtx_tx_send_media
vtx_tx_send_media_steps(type, frags) ==
    vtx_frame_pool_acquire_steps("media_pool") \o <<Op("tx_send_media", type, frags)>>

RECURSIVE SendFrags_steps(_)
SendFrags_steps(n) ==
    IF n = 0 THEN << >>
    ELSE SendFrags_steps(n - 1) \o vtx_send_packet_steps("sendmsg") \o <<Op("frag_set", "", n - 1)>>

\* vtx_tx_send_media from the tracker of an I-frame on
SendMedia_steps(type, frags, f) ==
    (IF type = "I" THEN vtx_frag_pool_acquire_steps(frags) ELSE << >>)
      \o SendFrags_steps(frags)
      \o (IF type = "I"
          THEN <<Lock("iframe_lock"), Op("iframe_release_old", "", 0),
                 Op("iframe_store", "", f), Unlock("iframe_lock")>>
          ELSE << >>)
      \o vtx_frame_release_steps("media_pool", f)
      \o <<Lock("stats_lock"), Unlock("stats_lock")>>

\* a thread outside every call
Returned == [todo |-> << >>, held |-> << >>, frame |-> 0, iframe |-> 0, iframe_gen |-> 0,
             retran |-> 0, retran_gen |-> 0]

ThreadFrame == [refcount |-> 0, linked |-> TRUE, retran |-> 0, retrans_count |-> 0, gen |-> 0]

ThreadPool(initial_size) ==
    [frames |-> [i \in 1..initial_size |-> ThreadFrame], free |-> [i \in 1..initial_size |-> i]]

ZeroSlab == [num |-> 0, frag |-> << >>, gen |-> 0]

\* vtx_tx_create, then the handshake: the pools full, the queue empty, no
\* I-frame retained, no tracker allocated
InitThreads ==
    /\ InitEndpoints(Handshake(TxConfigMedia, RxConfigMedia, 1))
    /\ calc = NoCalc /\ lib = NoLib
    /\ mem = [lock |-> [l \in LockNames |-> "none"],
              th |-> [t \in Callers |-> Returned],
              calls |-> [t \in Callers |-> 0],
              pool |-> [p \in {"data_pool", "media_pool"} |->
                          IF p = "data_pool" THEN ThreadPool(VTX_FRAME_POOL_INIT_SIZE * 4)
                          ELSE ThreadPool(VTX_FRAME_POOL_INIT_SIZE)],
              queue |-> << >>,
              last_iframe |-> 0,
              slab |-> << >>,
              slab_free |-> << >>,
              stale |-> {}]

\* the statement o of thread t on the memory m; due: the retransmission
\* timeout of what the sweep looks at has passed
Statement(m, t, o, due) ==
    LET me == m.th[t]
        rest == Tail(me.todo)
        Go(m2) == [m2 EXCEPT !.th[t].todo = rest]
        Then(m2, steps) == [m2 EXCEPT !.th[t].todo = steps \o rest]
        Return(m2) == [m2 EXCEPT !.th[t] = Returned]
        pool == m.pool[o.l]
    IN
    CASE o.op = "sendmsg" -> Go(m)
      [] o.op = "list_first_entry" ->
            IF pool.free /= << >>
            THEN Go([m EXCEPT !.pool[o.l].free = Tail(@),
                              !.pool[o.l].frames[Head(pool.free)].linked = FALSE,
                              !.th[t].frame = Head(pool.free)])
            ELSE Go([m EXCEPT !.th[t].frame = 0])
      [] o.op = "vtx_frame_alloc" ->
            IF me.frame /= 0 THEN Go(m)
            ELSE IF Len(pool.frames) < MaxPoolFrames
            THEN Then([m EXCEPT !.pool[o.l].frames = Append(@, [ThreadFrame EXCEPT !.linked = FALSE]),
                                !.th[t].frame = Len(pool.frames) + 1],
                      <<Lock(o.l), Unlock(o.l)>>)
            ELSE Return(m)
      [] o.op = "atomic_store" -> Go([m EXCEPT !.pool[o.l].frames[me.frame].refcount = 1])
      [] o.op = "atomic_fetch_sub" ->
            LET dec == [m EXCEPT !.pool[o.l].frames[o.f].refcount = @ - 1] IN
            IF pool.frames[o.f].refcount = 1
            THEN Then(dec, vtx_frame_pool_release_steps(o.l, o.f))
            ELSE Go(dec)
      [] o.op = "vtx_frame_reset" ->
            Go([m EXCEPT !.pool[o.l].frames[o.f].refcount = 0,
                         !.pool[o.l].frames[o.f].retran = 0,
                         !.pool[o.l].frames[o.f].retrans_count = 0,
                         !.pool[o.l].frames[o.f].gen = @ + 1])
      [] o.op = "list_add_tail" ->
            Go([m EXCEPT !.pool[o.l].free = Append(@, o.f),
                         !.pool[o.l].frames[o.f].linked = TRUE])
      [] o.op = "slab_first_entry" ->
            IF m.slab_free /= << >>
            THEN Go([m EXCEPT !.slab_free = Tail(@), !.th[t].retran = Head(m.slab_free)])
            ELSE Then([m EXCEPT !.slab = Append(@, ZeroSlab), !.th[t].retran = Len(m.slab) + 1],
                      <<Unlock("frag_pool"), Lock("frag_pool")>>)
      [] o.op = "slab_init" ->
            Go([m EXCEPT !.slab[me.retran].num = o.f,
                         !.slab[me.retran].frag =
                             [k \in 1..o.f |-> [received |-> FALSE, retrans_count |-> 0]],
                         !.pool["media_pool"].frames[me.frame].retran = me.retran])
      [] o.op = "slab_memset" ->
            Go([m EXCEPT !.slab[o.f] = [ZeroSlab EXCEPT !.gen = m.slab[o.f].gen + 1]])
      [] o.op = "slab_add_tail" -> Go([m EXCEPT !.slab_free = Append(@, o.f)])
      [] o.op = "retran_null" -> Go([m EXCEPT !.pool["media_pool"].frames[o.f].retran = 0])
      [] o.op = "queue_add_tail" ->
            Go([m EXCEPT !.queue = Append(@, o.f),
                         !.pool[o.l].frames[o.f].refcount = @ + 1,
                         !.pool[o.l].frames[o.f].linked = TRUE])
      [] o.op = "queue_find" ->
            Go([m EXCEPT !.th[t].frame =
                    IF \E k \in 1..Len(m.queue) : m.queue[k] = o.f THEN o.f ELSE 0])
      [] o.op = "queue_del" ->
            IF pool.frames[o.f].linked
            THEN Then([m EXCEPT !.queue = RemoveFirst(@, o.f),
                                !.pool[o.l].free =
                                    IF \E k \in 1..Len(m.queue) : m.queue[k] = o.f
                                    THEN @ ELSE RemoveFirst(@, o.f),
                                !.pool[o.l].frames[o.f].linked = FALSE],
                      vtx_frame_release_steps(o.l, o.f))
            ELSE Go(m)
      [] o.op = "ack_dispatch" ->
            IF me.frame /= 0
            THEN Then(m, vtx_frame_queue_remove_steps(me.frame)
                           \o vtx_frame_release_steps("data_pool", me.frame))
            ELSE Then(m, <<Lock("iframe_lock"), Op("ack_mark", "", o.f), Unlock("iframe_lock")>>)
      [] o.op = "ack_mark" ->
            LET f == m.last_iframe
                r == IF f = 0 THEN 0 ELSE m.pool["media_pool"].frames[f].retran
            IN IF r /= 0 /\ o.f < m.slab[r].num
               THEN Go([m EXCEPT !.slab[r].frag[o.f + 1].received = TRUE])
               ELSE Go(m)
      [] o.op = "data_visit" ->
            IF o.f > Len(m.queue) THEN Go(m)
            ELSE LET f == m.queue[o.f] IN
                 IF m.pool["data_pool"].frames[f].retrans_count >= TxDataMaxRetrans
                 THEN Then([m EXCEPT !.queue = RemoveFirst(@, f)],
                           <<Unlock("data_queue")>> \o vtx_frame_release_steps("data_pool", f)
                              \o <<Lock("data_queue"), Op("data_visit", "", o.f)>>)
                 ELSE IF due
                 THEN Then([m EXCEPT !.pool["data_pool"].frames[f].retrans_count = @ + 1],
                           SweepSend_steps("data_queue", "sendmsg")
                              \o <<Op("data_visit", "", o.f + 1)>>)
                 ELSE Then(m, <<Op("data_visit", "", o.f + 1)>>)
      [] o.op = "iframe_begin" ->
            LET f == m.last_iframe
                r == IF f = 0 THEN 0 ELSE m.pool["media_pool"].frames[f].retran
            IN IF r = 0 THEN Go(m)
               ELSE Then([m EXCEPT !.th[t].iframe = f,
                                   !.th[t].iframe_gen = m.pool["media_pool"].frames[f].gen,
                                   !.th[t].retran = r,
                                   !.th[t].retran_gen = m.slab[r].gen],
                         <<Op("frag_visit", "", 0)>>)
      [] o.op = "frag_visit" ->
            LET r == m.slab[me.retran]
                seen == [m EXCEPT !.stale = IF r.gen /= me.retran_gen
                                            THEN @ \cup {"tracker"} ELSE @]
            IN IF o.f >= r.num THEN Go(seen)
               ELSE IF r.frag[o.f + 1].received
               THEN Then(seen, <<Op("frag_visit", "", o.f + 1)>>)
               ELSE IF r.frag[o.f + 1].retrans_count >= MediaMaxRetrans
               THEN Then([seen EXCEPT !.slab[me.retran].frag[o.f + 1].received = TRUE],
                         <<Op("frag_visit", "", o.f + 1)>>)
               ELSE IF due
               THEN Then([seen EXCEPT !.slab[me.retran].frag[o.f + 1].retrans_count = @ + 1],
                         SweepSend_steps("iframe_lock", "sendmsg_iframe")
                            \o <<Op("frag_visit", "", o.f + 1)>>)
               ELSE Then(seen, <<Op("frag_visit", "", o.f + 1)>>)
      [] o.op = "sendmsg_iframe" ->
            Go([m EXCEPT !.stale = IF m.pool["media_pool"].frames[me.iframe].gen /= me.iframe_gen
                                   THEN @ \cup {"frame"} ELSE @])
      [] o.op = "tx_send" ->
            Then(m, vtx_send_packet_steps("sendmsg")
                      \o vtx_frame_queue_push_steps(me.frame)
                      \o vtx_frame_release_steps("data_pool", me.frame))
      [] o.op = "tx_send_media" -> Then(m, SendMedia_steps(o.l, o.f, me.frame))
      [] o.op = "frag_set" -> Go(m)
      [] o.op = "iframe_release_old" ->
            LET f == m.last_iframe
                r == IF f = 0 THEN 0 ELSE m.pool["media_pool"].frames[f].retran
            IN IF f = 0 THEN Go(m)
               ELSE Then(m, (IF r /= 0
                             THEN vtx_frag_pool_release_steps(r) \o <<Op("retran_null", "", f)>>
                             ELSE << >>)
                            \o vtx_frame_release_steps("media_pool", f))
      [] o.op = "iframe_store" ->
            Go([m EXCEPT !.last_iframe = o.f,
                         !.pool["media_pool"].frames[o.f].refcount = @ + 1])

\* the next step of thread t
NextStep(t) == Head(mem.th[t].todo)

ThreadVars == <<tx, rx, net, now, txCb, rxCb, txSent, rxSent, rxRecvd, submitted, sentData, dups,
                drops, swept, rxCall, threads, hist, calc, lib>>

\* a function of the API is called by its thread
Call(t, max, steps) ==
    /\ mem.th[t].todo = << >>
    /\ mem.calls[t] < max
    /\ mem' = [mem EXCEPT !.th[t] = [Returned EXCEPT !.todo = steps], !.calls[t] = @ + 1]
    /\ UNCHANGED ThreadVars

\* vtx_tx_poll, select timed out
PollSweep == Call("poll", MaxPollCalls, vtx_process_retrans_queue_steps)

\* vtx_tx_poll, select reports an ACK
PollRecvAck(frame_id, frag_index) ==
    Call("poll", MaxPollCalls, TxRecvAck_steps(frame_id, frag_index))

AppSend == Call("send", MaxSendCalls, vtx_tx_send_steps)

AppSendMedia(type, frags) == Call("media", MaxMediaCalls, vtx_tx_send_media_steps(type, frags))

\* vtx_spinlock_lock: the thread spins until the lock is free
ThreadLock(t) ==
    /\ mem.th[t].todo /= << >>
    /\ NextStep(t).op = "lock"
    /\ mem.lock[NextStep(t).l] = "none"
    /\ mem' = [mem EXCEPT !.lock[NextStep(t).l] = t,
                          !.th[t].held = Append(@, NextStep(t).l),
                          !.th[t].todo = Tail(@)]
    /\ UNCHANGED ThreadVars

\* vtx_spinlock_unlock
ThreadUnlock(t) ==
    /\ mem.th[t].todo /= << >>
    /\ NextStep(t).op = "unlock"
    /\ mem' = [mem EXCEPT !.lock[NextStep(t).l] = "none",
                          !.th[t].held = SelectSeq(@, LAMBDA l : l /= NextStep(t).l),
                          !.th[t].todo = Tail(@)]
    /\ UNCHANGED ThreadVars

\* any other statement; the thread returns after the last one
ThreadStatement(t) ==
    /\ mem.th[t].todo /= << >>
    /\ NextStep(t).op \notin {"lock", "unlock"}
    /\ \E due \in BOOLEAN : mem' = Statement(mem, t, NextStep(t), due)
    /\ UNCHANGED ThreadVars

NextThreads ==
    \/ PollSweep
    \/ \E frame_id \in 0..MaxSendCalls, frag_index \in 0..(MaxThreadFrags - 1) :
          PollRecvAck(frame_id, frag_index)
    \/ AppSend
    \/ \E type \in {"I", "P"}, frags \in 1..MaxThreadFrags : AppSendMedia(type, frags)
    \/ \E t \in Callers : ThreadLock(t)
    \/ \E t \in Callers : ThreadUnlock(t)
    \/ \E t \in Callers : ThreadStatement(t)

SpecThreads == InitThreads /\ [][NextThreads]_vars

(* ---------------- properties: the sweep and the retained I-frame ---------------- *)

\* C35: while a media submission replaces the retained I-frame, the sweep of
\* the poll thread never reads a fragment tracker and never sends from a frame
\* that has been released since the sweep took it from last_iframe.
C35_SweepNeverUsesReleased == mem.stale = {}

(* ---------------- properties: the order of the locks ---------------- *)

\* the level of a lock in the order endpoint > queue > pool > statistics; the
\* lock of the retained I-frame is at the level of the queues, and no lock of
\* TX is at the level of the endpoint
LockLevel(l) ==
    CASE l \in {"data_queue", "iframe_lock"} -> 2
      [] l \in {"data_pool", "media_pool", "frag_pool"} -> 3
      [] l = "stats_lock" -> 4

\* thread t spins on a lock that is held
Blocked(t) ==
    /\ mem.th[t].todo /= << >>
    /\ NextStep(t).op = "lock"
    /\ mem.lock[NextStep(t).l] /= "none"

\* some threads spin on locks held by threads among them
Deadlocked ==
    \E waiting \in SUBSET Callers :
        /\ waiting /= {}
        /\ \A t \in waiting : Blocked(t) /\ mem.lock[NextStep(t).l] \in waiting

\* C39: no thread holds two locks of the queue level at once, none holds a
\* lock taken after a lock of a lower level, and no threads of concurrent
\* poll, reliable send and media submission wait for one another's locks.
C39_LockOrderNoDeadlock ==
    /\ \A t \in Callers : \A i, j \in 1..Len(mem.th[t].held) :
          i < j => /\ LockLevel(mem.th[t].held[i]) <= LockLevel(mem.th[t].held[j])
                   /\ ~(LockLevel(mem.th[t].held[i]) = 2 /\ LockLevel(mem.th[t].held[j]) = 2)
    /\ \A l \in LockNames : \A t \in Callers :
          mem.lock[l] = t <=> \E i \in 1..Len(mem.th[t].held) : mem.th[t].held[i] = l
    /\ ~Deadlocked

\* the media thread replaces the retained I-frame and holds the lock of the
\* media pool inside iframe_lock, the poll thread spins on iframe_lock and the
\* sending thread holds the lock of the data queue
C39_Witness ==
    /\ mem.th["media"].held = <<"iframe_lock", "media_pool">>
    /\ Blocked("poll") /\ NextStep("poll").l = "iframe_lock"
    /\ mem.th["send"].held = <<"data_queue">>

(* ---------------- a connection that goes down with work queued ---------------- *)

\* data_retrans_timeout_ms of TX, the I-frames submitted, the datagrams lost and
\* the clock of this specification
DownDataRetransTimeoutMs == 1
MaxSubmitDown == 1
MaxDropDown == 1
MaxTimeDown == 3

TxConfigDown == [TxConfigConn EXCEPT !.data_retrans_timeout_ms = DownDataRetransTimeoutMs]

\* the endpoints are connected; RX, which sends no HEARTBEAT, may close
InitDown == InitConnected(TxConfigDown, RxConfigConn)

NextDown ==
    \/ TxSubmitMediaUpTo(VTX_FRAME_I, 1, MaxSubmitDown)
    \/ \E size \in 1..CtrlCap : TxSend(size)
    \/ RxClose
    \/ \E p \in net : Drop(p, MaxDropDown)
    \/ \E p \in net : TxPollRecv(p)
    \/ \E p \in net : RxPollRecvLive(p)
    \/ TxPollTimeout
    \/ RxPollTimeoutLive
    \/ TickLive(1, MaxTimeDown)

SpecDown == InitDown /\ [][NextDown]_vars

(* ---------------- properties: TX after the connection went down ---------------- *)

\* TX was connected, is not now, and no CONNECT is on its way
WentDown ==
    /\ hist.heard > 0
    /\ ~tx.connected
    /\ \A p \in net : p.frame_type /= VTX_DATA_CONNECT

\* C36: once TX has left Connected by a heartbeat timeout or a DISCONNECT, its
\* peer address is cleared and it sends no packet, no retransmission of a
\* queued datagram or of a fragment of the retained I-frame either, until a
\* new CONNECT arrives.
C36_IdleTxSendsNothing ==
    /\ [](WentDown => tx.client_addr = "none")
    /\ [][WentDown => txSent' = txSent]_vars

\* the same for the two retransmissions of the sweep alone: in the timeout
\* branch of vtx_tx_poll a TX that went down sends no datagram of the queue
\* and no fragment of the retained I-frame
IdleSweepSendsNoDatagram ==
    [][(WentDown /\ TxPollTimeout) =>
          \A p \in txSent' \ txSent : p.frame_type /= VTX_DATA_USER]_vars

IdleSweepSendsNoFragment ==
    [][(WentDown /\ TxPollTimeout) => \A p \in txSent' \ txSent : ~IsMedia(p)]_vars

(* ---------------- packets from an address that is not the peer ---------------- *)

\* packets the third party sends
MaxOther == 2

\* a host that is neither endpoint sends TX a well-formed control packet
OtherSends(type, frame_id) ==
    /\ hist.other < MaxOther
    /\ net' = net \cup {[Packet([ZeroHeader EXCEPT !.frame_type = type, !.frame_id = frame_id,
                                                   !.seq_num = hist.other,
                                                   !.total_frags = 1], << >>)
                           EXCEPT !.from = "other", !.to = "tx"]}
    /\ hist' = [hist EXCEPT !.other = @ + 1]
    /\ UNCHANGED <<mem, calc, lib, tx, rx, now, txCb, rxCb, txSent, rxSent, rxRecvd, submitted,
                   sentData, dups, drops, swept, rxCall, threads>>

\* a packet TX addressed to the third party arrives there
OtherRecv(p) ==
    /\ p \in net /\ p.to = "other"
    /\ net' = net \ {p}
    /\ UNCHANGED <<mem, calc, lib, tx, rx, now, txCb, rxCb, txSent, rxSent, rxRecvd, submitted,
                   sentData, dups, drops, swept, rxCall, threads, hist>>

NextOther ==
    \/ \E size \in 1..CtrlCap : TxSend(size)
    \/ \E type \in {VTX_DATA_CONNECT, VTX_DATA_DISCONNECT, VTX_DATA_ACK, VTX_DATA_HEARTBEAT} :
          OtherSends(type, 0)
    \/ \E p \in net : TxPollRecv(p)
    \/ \E p \in net : RxPollRecv(p)
    \/ \E p \in net : OtherRecv(p)

SpecOther == InitData /\ [][NextOther]_vars

(* ---------------- properties: packets from an address that is not the peer ---------------- *)

\* C37: while TX is connected, a packet from an address other than the peer's,
\* a CONNECT included, changes neither the recorded peer address nor the
\* connection state nor the retransmission state (the data queue and its
\* frames, the retained I-frame and its tracker, the pending handshake reply).
C37_StrangerChangesNothing ==
    [][\A p \in net :
          (tx.connected /\ p.from /= tx.client_addr /\ TxPollRecv(p))
              => /\ tx'.client_addr = tx.client_addr
                 /\ tx'.connected = tx.connected
                 /\ tx'.data_queue = tx.data_queue
                 /\ tx'.data_pool = tx.data_pool
                 /\ tx'.last_iframe = tx.last_iframe
                 /\ tx'.media_pool = tx.media_pool
                 /\ tx'.connect_send_time_ms = tx.connect_send_time_ms
                 /\ tx'.connect_retrans_count = tx.connect_retrans_count]_vars

(* ---------------- properties: fragment trackers ---------------- *)

\* the trackers of the slabs 0..c of a tracker pool that are not in its free lists
RECURSIVE OutstandingUpTo(_, _)
OutstandingUpTo(fp, c) ==
    IF c < 0 THEN 0
    ELSE fp.slab_total_count[c] - fp.slab_free_count[c] + OutstandingUpTo(fp, c - 1)

Outstanding(fp) == OutstandingUpTo(fp, VTX_FRAG_SLAB_COUNT - 1)

Retained(ep) == IF ep.last_iframe /= 0 THEN 1 ELSE 0

\* C38: a frame that returns to its pool has given its tracker back to the
\* tracker pool: between the calls of an endpoint no more trackers are
\* outstanding than it has frames in reassembly plus the retained I-frame.
C38_TrackersReturnedWithFrames ==
    /\ Outstanding(rx.frag_pool) <= Len(rx.recv_queue) + Retained(rx)
    /\ Outstanding(tx.frag_pool) <= Retained(tx)

(* ---------------- START packets (SpecStart) ---------------- *)

\* the payload bytes the receive buffer of vtx_recv holds after the header
RecvBufPayload == 128
\* START packets sent
MaxStart == 2
\* a byte of a URL that is not the terminator
UrlByte == 47

\* the payload lengths of the START packets: none, the shortest, and the
\* lengths around VTX_MAX_URL_SIZE
StartLens == {0, 1, 2, VTX_MAX_URL_SIZE - 1, VTX_MAX_URL_SIZE, VTX_MAX_URL_SIZE + 1}

StartPayload(n, last) == [k \in 1..n |-> IF k = n THEN last ELSE UrlByte]

StartsSent == {p \in rxSent : p.frame_type = VTX_DATA_START}

\* the peer asks for media: a START packet as vtx_rx_start builds it, its
\* payload the URL of the request (vtx_rx_start itself sends none, n = 0)
PeerStart(n, last) ==
    /\ rx.connected
    /\ Cardinality(StartsSent) < MaxStart
    /\ RxDone(RxEmit(RxRun(rx), [ZeroHeader EXCEPT !.frame_type = VTX_DATA_START,
                                                   !.payload_size = n],
                     StartPayload(n, last)), net)
    /\ UNCHANGED <<mem, calc, lib, tx, now, txCb, txSent, rxRecvd, submitted, sentData, dups,
                   drops, swept, rxCall, threads, hist>>

\* vtx_tx_poll reads a START packet: vtx_recv with its receive buffer at its
\* size in the code, so that a payload of VTX_MAX_URL_SIZE bytes arrives whole
TxPollStart(p) ==
    /\ p \in net /\ p.to = "tx" /\ p.frame_type = VTX_DATA_START
    /\ TxDone(IF Len(p.payload) > RecvBufPayload \/ ~vtx_packet_verify(p)
              THEN TxRun(tx)
              ELSE TxRecvStart(TxRun(tx), p), net \ {p})
    /\ UNCHANGED <<mem, calc, lib, rxCall, threads, rx, now, rxCb, rxSent, rxRecvd, submitted,
                   sentData, dups, drops, swept, hist>>

NextStart ==
    \/ \E n \in StartLens : \E last \in {0, UrlByte} : PeerStart(n, last)
    \/ \E p \in net : TxPollStart(p)

SpecStart == InitData /\ [][NextStart]_vars

(* ---------------- properties: the URL of a START packet ---------------- *)

\* the URL the media-control callback is to get for a START payload: the
\* payload when it is 1 to VTX_MAX_URL_SIZE bytes long and ends in 0
UrlExpected(payload) ==
    /\ Len(payload) >= 1 /\ Len(payload) <= VTX_MAX_URL_SIZE
    /\ payload[Len(payload)] = 0

\* C40: for every START packet TX calls the media-control callback once,
\* with the payload as the URL exactly when the payload is between 1 and 100
\* bytes long and its last byte is 0, and with no URL otherwise.
C40_StartUrlRule ==
    [][\A p \in net :
          TxPollStart(p)
              => txCb' = Append(txCb, Callback("media_fn", VTX_DATA_START, UrlExpected(p.payload),
                                               IF UrlExpected(p.payload) THEN p.payload
                                               ELSE << >>))]_vars

====
